---- MODULE Spec2Model ----
(***************************************************************************)
(* Help From Founder: the thread/response lifecycle of the web client      *)
(* (ThreadPage, ProjectPage) over the Firestore document store and its     *)
(* access rules, the project forms and their slugs, the anonymous          *)
(* identity and its transfer at registration, the email notification       *)
(* worker and the image relay.                                             *)
(*                                                                         *)
(* One action is one step of a handler between two awaits: the store       *)
(* applies (or refuses) the awaited write and the handler runs on to its   *)
(* next await.  Handlers of different browser tabs interleave at these     *)
(* steps, as the event loop and the network allow.                         *)
(***************************************************************************)
EXTENDS Integers, Sequences, FiniteSets, TLC

NULL == "null"

\* ---------------------------------------------------------------- bounds
MaxThreads == 1
MaxResponses == 2
MaxFailures == 1
CounterBound == 2
MaxRecipients == 2
MaxObjects == 2
MaxCalls == 2
MaxProjects == 2

\* ------------------------------------------------------------ identities
Owner == "founder"
OtherUser == "user2"
AnonymousId == "10000001"
ProjectId == "p1"

\* The browser tabs: two tabs of the signed-in project owner and one tab of
\* a visitor who is not signed in.
Tabs == {"tabA", "tabB", "tabC"}
TabUser == [tabA |-> Owner, tabB |-> Owner, tabC |-> NULL]

\* The tabs open in one run: the owner in two tabs, or the owner and the visitor.
TabSets == {{"tabA", "tabB"}, {"tabA", "tabC"}}

ClosingReasons == {"solved", "feature backlog", "other"}
ClosingNotes == {"", "note"}

VARIABLES
    project,          \* the Project document: ownerId, totalIssues, closedIssues
    threads,          \* the threads collection: thread id -> Thread document
    responses,        \* the responses collection: response id -> Response document
    threadSeq,        \* number of thread ids handed out by addDoc
    responseSeq,      \* number of response ids handed out by addDoc
    currentUser,      \* per tab: useAuth().currentUser (uid or NULL)
    thread,           \* per tab: the ThreadPage `thread` state (NoThread on the project page)
    pc,               \* per tab: the await the running handler is suspended at
    showCloseModal,   \* per tab: ThreadPage state
    showDeleteConfirm,\* per tab: ThreadPage state
    pendingDeletes,   \* per tab: response deletes of Promise.all still in flight
    failures,         \* number of writes that have failed (capped)
    statusWriters,    \* identities whose accepted write changed a status/closing field
    scenario,         \* the latest close (and reopen) that ran undisturbed so far
    tabs,             \* the browser tabs that are open in this run
    dpc,              \* worker: "idle", "sending" (awaiting Promise.all) or "responded"
    apiKey,           \* worker: whether env.SENDGRID_API_KEY is set
    request,          \* worker: the body of the request being handled
    outbox,           \* worker: the messages handed to sgMail.send, in order
    results,          \* worker: per recipient, "pending", "ok" or "failed"
    errors,           \* worker: the errors array
    reply,            \* worker: the HTTP response
    rpc,              \* image relay: "idle", "putting" (awaiting put) or "responded"
    upload,           \* image relay: the `file` entry of the form being handled
    bucket,           \* image relay: the objects of PROJECT_LOGOS, in order of storing
    relayReply,       \* image relay: the HTTP response
    localStorage,     \* the visitor's browser: the items anonymous_user_id, anonymous_user_name
    storageFull,      \* the visitor's browser: whether setItem throws (quota, storage disabled)
    idCalls,          \* what the calls of getAnonymousUserId returned, in order
    nameCalls,        \* what the calls of getAnonymousUserName returned, in order
    projectDocs,      \* the projects collection as the project forms see it: name, slug, ownerId
    form,             \* per user: the NewProject / EditProject form and its running handleSubmit
    xfer,             \* the running transferAnonymousUserData of the visitor who registers
    lastRequest,      \* the latest request sent straight to the store, and the rules' answer
    deletedStatus,    \* per tab: the stored status of the thread its running delete removed
    formError,        \* per tab: the page's formError state ("" when none is shown)
    lastResponse,     \* per tab: the last element of the ThreadPage `responses` state
    users,            \* the users collection: uid -> User document
    now,              \* the clock, in milliseconds
    notifications,    \* the calls of sendNewIssueNotification, in order, each with its outcome
    docRef,           \* per tab: the id addDoc returned to the running handler (0 when none)
    lastCall          \* the latest call of getThreadParticipants: its arguments and result

\* The variables of the image relay.
relayVars == <<rpc, upload, bucket, relayReply>>

\* The variables of the anonymous identity.
anonVars == <<localStorage, storageFull, idCalls, nameCalls>>

\* The variables of the project forms.
slugVars == <<projectDocs, form>>

\* The variables of the thread pages and of the store behind them.
clientVars == <<project, threads, responses, threadSeq, responseSeq, currentUser,
                thread, pc, showCloseModal, showDeleteConfirm, pendingDeletes,
                failures, statusWriters, scenario, tabs, deletedStatus, formError,
                lastResponse, users, now, notifications, docRef, lastCall>>

\* Everything but the variables of the email worker.
lifecycleVars == <<clientVars, relayVars, anonVars, slugVars, xfer, lastRequest>>

dispatcherVars == <<dpc, apiKey, request, outbox, results, errors, reply>>

\* The variables no handler of the web client writes.
outside == <<currentUser, tabs, dispatcherVars, relayVars, anonVars, slugVars, xfer,
             lastRequest, users, lastCall>>

vars == <<lifecycleVars, dispatcherVars>>

NoStoreRequest == [op |-> "none", auth |-> NULL, target |-> 0, accepted |-> FALSE]

ThreadIds == 1..MaxThreads
ResponseIds == 1..MaxResponses

\* The `thread` state of a tab that shows no thread page.
NoThread == [id |-> 0, status |-> "none"]

NoScenario == [stage |-> "none", tab |-> NULL, thread |-> 0, base |-> 0, reason |-> NULL]

\* ------------------------------------------------------- access policy
getProject(projectId) == project

ThreadCreateAllowed(auth) == TRUE

ThreadUpdateAllowed(auth) == TRUE

\* Faulty variant: the rule without `request.auth != null`.
ThreadDeleteAllowedNoAuthTest(auth, tid) ==
    /\ tid \in DOMAIN threads
    /\ \/ auth = threads[tid].authorId
       \/ getProject(threads[tid].projectId).ownerId = auth

\* An error while evaluating a rule (resource is null) denies the request.
ThreadDeleteAllowed(auth, tid) ==
    /\ auth # NULL
    /\ tid \in DOMAIN threads
    /\ \/ auth = threads[tid].authorId
       \/ getProject(threads[tid].projectId).ownerId = auth

ResponseCreateAllowed(auth) == TRUE

ResponseUpdateAllowed(auth) == TRUE

ResponseDeleteAllowed(auth, rid) ==
    /\ auth # NULL
    /\ rid \in DOMAIN responses
    /\ \/ auth = responses[rid].authorId
       \/ /\ responses[rid].threadId \in DOMAIN threads
          /\ getProject(threads[responses[rid].threadId].projectId).ownerId = auth

\* Faulty variant: hasAny in place of hasOnly.
ProjectUpdateAllowedHasAny(auth, affectedKeys) ==
    \/ affectedKeys \cap {"totalIssues", "closedIssues"} # {}
    \/ (auth # NULL /\ auth = project.ownerId)

ProjectUpdateAllowed(auth, affectedKeys) ==
    \/ affectedKeys \subseteq {"totalIssues", "closedIssues"}
    \/ (auth # NULL /\ auth = project.ownerId)

\* ------------------------------------------------------------- helpers
isFounder(t) == currentUser[t] # NULL /\ currentUser[t] = project.ownerId

founderName(t) == IF currentUser[t] = Owner THEN "Founder" ELSE currentUser[t]

ClosedThreads == {tid \in DOMAIN threads : threads[tid].status = "closed"}

ResponsesOf(tid) == {rid \in DOMAIN responses : responses[rid].threadId = tid}

\* A write fails for a reason outside the program (network, quota).
CanFail == failures < MaxFailures
NoteFailure == failures' = IF failures < MaxFailures THEN failures + 1 ELSE failures

InCounterRange(n) == n >= -CounterBound /\ n <= CounterBound

\* The registered users.
Members == {Owner, OtherUser, "user3", "user4", "user5", "user6", "user7"}

\* users/{uid} does not exist.
NoUser == [exists |-> FALSE, email |-> NULL]

\* No call of getThreadParticipants was made.
NoCall == [threadId |-> 0, currentUserId |-> NULL, recipients |-> <<>>]

\* `responses` of a page that has loaded no response.
NoResponse == [authorId |-> NULL, anonymousId |-> NULL, createdAt |-> -1]

InitLifecycle ==
    /\ project = [ownerId |-> Owner, totalIssues |-> 0, closedIssues |-> 0]
    /\ threads = <<>>
    /\ responses = <<>>
    /\ threadSeq = 0
    /\ responseSeq = 0
    /\ currentUser = TabUser
    /\ thread = [t \in Tabs |-> NoThread]
    /\ pc = [t \in Tabs |-> "idle"]
    /\ showCloseModal = [t \in Tabs |-> FALSE]
    /\ showDeleteConfirm = [t \in Tabs |-> FALSE]
    /\ pendingDeletes = [t \in Tabs |-> {}]
    /\ failures = 0
    /\ statusWriters = {}
    /\ scenario = NoScenario
    /\ deletedStatus = [t \in Tabs |-> NULL]
    /\ formError = [t \in Tabs |-> ""]
    /\ lastResponse = [t \in Tabs |-> NoResponse]
    /\ notifications = <<>>
    /\ docRef = [t \in Tabs |-> 0]
    /\ lastCall = NoCall

\* No User document is stored, and the clock stands at the start.
InitNoUsers ==
    /\ users = [u \in Members |-> NoUser]
    /\ now = 0

\* --------------------------------------------------------- store writes
NewThreadDoc(t) ==
    [projectId |-> ProjectId, status |-> "open",
     closingReason |-> NULL, closingNote |-> NULL, closedBy |-> NULL, closedAt |-> NULL,
     authorId |-> currentUser[t],
     anonymousId |-> IF currentUser[t] = NULL THEN AnonymousId ELSE NULL,
     responseCount |-> 0, createdAt |-> now]

\* Faulty variant: the anonymous id is stored whoever posts.
NewResponseDocAlwaysAnonymousId(t) ==
    [threadId |-> thread[t].id,
     authorId |-> currentUser[t],
     anonymousId |-> AnonymousId,
     isFounder |-> isFounder(t), createdAt |-> now]

NewResponseDoc(t) ==
    [threadId |-> thread[t].id,
     authorId |-> currentUser[t],
     anonymousId |-> IF currentUser[t] = NULL THEN AnonymousId ELSE NULL,
     isFounder |-> isFounder(t), createdAt |-> now]

CloseFields(doc, t, reason, note) ==
    [doc EXCEPT !.status = "closed",
                !.closingReason = reason,
                !.closingNote = IF note = "" THEN NULL ELSE note,
                !.closedBy = founderName(t),
                !.closedAt = "ts"]

\* Faulty variant: the note of the close is left on the thread.
ReopenFieldsKeepsNote(doc) ==
    [doc EXCEPT !.status = "open",
                !.closingReason = NULL,
                !.closedBy = NULL]

\* The reopen update names status, closingReason, closingNote and closedBy;
\* closedAt is not among its fields.
ReopenFields(doc) ==
    [doc EXCEPT !.status = "open",
                !.closingReason = NULL,
                !.closingNote = NULL,
                !.closedBy = NULL]

\* Faulty variant: the update writes responseCount: 1 in place of increment(1).
IncrementResponseCountSetsOne(doc) == [doc EXCEPT !.responseCount = 1]

IncrementResponseCount(doc) == [doc EXCEPT !.responseCount = @ + 1]

IncrementTotalIssues(p) == [p EXCEPT !.totalIssues = @ + 1]

IncrementClosedIssues(p) == [p EXCEPT !.closedIssues = @ + 1]

\* Faulty variant: reopening leaves the closedIssues counter alone.
DecrementClosedIssuesOmitted(p) == p

DecrementClosedIssues(p) == [p EXCEPT !.closedIssues = @ - 1]

\* Faulty variant: the delete forgets totalIssues and only adjusts closedIssues.
DeleteCountersKeepsTotal(p, localThread) ==
    [p EXCEPT !.closedIssues = IF localThread.status = "closed" THEN @ - 1 ELSE @]

DeleteCounters(p, localThread) ==
    [p EXCEPT !.totalIssues = @ - 1,
              !.closedIssues = IF localThread.status = "closed" THEN @ - 1 ELSE @]

Without(f, k) == [x \in (DOMAIN f) \ {k} |-> f[x]]

CountersInRange(p) == InCounterRange(p.totalIssues) /\ InCounterRange(p.closedIssues)

\* --------------------------------------------------------- notifications
\* The User documents of a project with registered participants: user7 has a
\* document without an email.
EmailOf ==
    [u \in Members |->
        CASE u = Owner -> "founder@mail"
          [] u = OtherUser -> "user2@mail"
          [] u = "user3" -> "user3@mail"
          [] u = "user4" -> "user4@mail"
          [] u = "user5" -> "user5@mail"
          [] u = "user6" -> "user6@mail"
          [] OTHER -> NULL]

RegisteredUsers == [u \in Members |-> [exists |-> TRUE, email |-> EmailOf[u]]]

\* userDoc.exists() and userData.email is set.
HasEmail(uid) == uid \in DOMAIN users /\ users[uid].exists /\ users[uid].email # NULL

\* project.ownerEmail of a page: the email of users/{ownerId}, read when the
\* page loaded (NULL when there is none).
ownerEmail == IF HasEmail(project.ownerId) THEN users[project.ownerId].email ELSE NULL

oneHourInMs == 3600000

\* responses.slice(0, 5)
RecentResponses == 5

\* Faulty variant: the list is cut to four.
RecipientLimitFour == 5 - 1

\* recipients.slice(0, 5)
RecipientLimit == 5

slice(s, n) == IF Len(s) <= n THEN s ELSE SubSeq(s, 1, n)

\* sort((a, b) => b.timestamp - a.timestamp): newest first, and elements of
\* equal timestamp keep their order.
RECURSIVE InsertNewestFirst(_, _)
InsertNewestFirst(sorted, x) ==
    IF sorted = <<>> THEN <<x>>
    ELSE IF Head(sorted).timestamp >= x.timestamp
         THEN <<Head(sorted)>> \o InsertNewestFirst(Tail(sorted), x)
         ELSE <<x>> \o sorted

RECURSIVE SortNewestFirst(_)
SortNewestFirst(s) ==
    IF s = <<>> THEN <<>>
    ELSE InsertNewestFirst(SortNewestFirst(SubSeq(s, 1, Len(s) - 1)), s[Len(s)])

\* The documents of getDocs(responses where threadId == threadId), mapped to
\* {authorId, timestamp}; the documents come in the order of their ids.
RECURSIVE ResponsesSnapshot(_, _)
ResponsesSnapshot(threadId, n) ==
    IF n = 0 THEN <<>>
    ELSE ResponsesSnapshot(threadId, n - 1) \o
         (IF n \in DOMAIN responses /\ responses[n].threadId = threadId
          THEN <<[authorId |-> responses[n].authorId, timestamp |-> responses[n].createdAt]>>
          ELSE <<>>)

Recipient(uid, name, timestamp) ==
    [userId |-> uid, email |-> users[uid].email, name |-> name, timestamp |-> timestamp]

\* The loop over the most recent responses: an author who is not the current
\* user and was not processed yet is processed, and pushed if it has an email.
RECURSIVE AddResponders(_, _, _, _)
AddResponders(rs, processedUserIds, recipients, currentUserId) ==
    IF rs = <<>> THEN recipients
    ELSE LET response == Head(rs) IN
         IF /\ response.authorId # NULL
            /\ response.authorId # currentUserId
            /\ response.authorId \notin processedUserIds
         THEN AddResponders(Tail(rs), processedUserIds \cup {response.authorId},
                            IF HasEmail(response.authorId)
                            THEN Append(recipients, Recipient(response.authorId,
                                                              "Thread Participant",
                                                              response.timestamp))
                            ELSE recipients,
                            currentUserId)
         ELSE AddResponders(Tail(rs), processedUserIds, recipients, currentUserId)

\* Faulty variant: the recipients are returned without the cut to five.
limitedRecipientsUncut(threadId, currentUserId) ==
    IF threadId \notin DOMAIN threads THEN <<>>
    ELSE LET threadData == threads[threadId]
             ownerId == getProject(threadData.projectId).ownerId
             withAuthor == threadData.authorId # NULL /\ threadData.authorId # currentUserId
             withOwner == /\ ownerId # NULL
                          /\ ownerId # currentUserId
                          /\ ~(withAuthor /\ ownerId = threadData.authorId)
             first == (IF withAuthor /\ HasEmail(threadData.authorId)
                       THEN <<Recipient(threadData.authorId, "Thread Author",
                                        threadData.createdAt)>>
                       ELSE <<>>)
                      \o (IF withOwner /\ HasEmail(ownerId)
                          THEN <<Recipient(ownerId, "Project Owner", threadData.createdAt)>>
                          ELSE <<>>)
             processedUserIds == (IF withAuthor THEN {threadData.authorId} ELSE {})
                                     \cup (IF withOwner THEN {ownerId} ELSE {})
             responsesNewestFirst == SortNewestFirst(ResponsesSnapshot(threadId, responseSeq))
         IN  SortNewestFirst(AddResponders(slice(responsesNewestFirst, RecentResponses),
                                           processedUserIds, first, currentUserId))

\* getThreadParticipants up to `limitedRecipients`: the thread's author, the
\* project's owner and the authors of the five most recent responses, without
\* the current user, each once, those with an email only; newest first, five
\* at most.
limitedRecipients(threadId, currentUserId) ==
    IF threadId \notin DOMAIN threads THEN <<>>
    ELSE LET threadData == threads[threadId]
             ownerId == getProject(threadData.projectId).ownerId
             withAuthor == threadData.authorId # NULL /\ threadData.authorId # currentUserId
             withOwner == /\ ownerId # NULL
                          /\ ownerId # currentUserId
                          /\ ~(withAuthor /\ ownerId = threadData.authorId)
             first == (IF withAuthor /\ HasEmail(threadData.authorId)
                       THEN <<Recipient(threadData.authorId, "Thread Author",
                                        threadData.createdAt)>>
                       ELSE <<>>)
                      \o (IF withOwner /\ HasEmail(ownerId)
                          THEN <<Recipient(ownerId, "Project Owner", threadData.createdAt)>>
                          ELSE <<>>)
             processedUserIds == (IF withAuthor THEN {threadData.authorId} ELSE {})
                                     \cup (IF withOwner THEN {ownerId} ELSE {})
             responsesNewestFirst == SortNewestFirst(ResponsesSnapshot(threadId, responseSeq))
         IN  slice(SortNewestFirst(AddResponders(slice(responsesNewestFirst, RecentResponses),
                                                 processedUserIds, first, currentUserId)),
                   RecipientLimit)

\* limitedRecipients.map(({ email, name }) => ({ email, name }))
getThreadParticipants(threadId, currentUserId) ==
    LET limited == limitedRecipients(threadId, currentUserId)
    IN  [i \in 1..Len(limited) |-> [email |-> limited[i].email, name |-> limited[i].name]]

\* The last element of the responses of a thread sorted by createdAt, oldest
\* first: the one element of the page's list that handleSubmitResponse reads.
LastResponseOf(threadId) ==
    IF ResponsesOf(threadId) = {} THEN NoResponse
    ELSE LET rid == CHOOSE r \in ResponsesOf(threadId) :
                        \A q \in ResponsesOf(threadId) :
                            \/ responses[q].createdAt < responses[r].createdAt
                            \/ responses[q].createdAt = responses[r].createdAt /\ q <= r
         IN  [authorId |-> responses[rid].authorId, anonymousId |-> responses[rid].anonymousId,
              createdAt |-> responses[rid].createdAt]

\* fetchResponses(threadId), as the page keeps its result.  Where no User
\* document holds an email, getThreadParticipants finds no recipient and no
\* handler's outcome depends on the list: it is left out of the page's state.
fetchResponses(threadId) ==
    IF \E u \in DOMAIN users : HasEmail(u) THEN LastResponseOf(threadId) ELSE NoResponse

isWithinLastHour(t) == now - lastResponse[t].createdAt < oneHourInMs

isSameAuthor(t) ==
    \/ currentUser[t] # NULL /\ lastResponse[t].authorId = currentUser[t]
    \/ currentUser[t] = NULL /\ lastResponse[t].anonymousId = AnonymousId

shouldSendEmails(t) ==
    ~(lastResponse[t] # NoResponse /\ isWithinLastHour(t) /\ isSameAuthor(t))

\* A call of sendNewIssueNotification whose fetch has not answered yet.
Notification(type, recipients) == [type |-> type, recipients |-> recipients, status |-> "pending"]

\* The calls the handleNewThreadSubmit of tab t makes after its two writes.
NewIssueNotifications ==
    IF ownerEmail # NULL
    THEN Append(notifications,
                Notification("new_issue", <<[email |-> ownerEmail, name |-> "Project Owner"]>>))
    ELSE notifications

\* The calls the handleSubmitResponse of tab t makes after its two writes.
NewResponseNotifications(t) ==
    LET participants == getThreadParticipants(thread[t].id, currentUser[t])
    IN  IF Len(participants) > 0 /\ shouldSendEmails(t)
        THEN Append(notifications, Notification("new_response", participants))
        ELSE notifications

ThreadError == "Failed to create thread. Please try again."

ResponseError == "Failed to create response"

\* ------------------------------------------------------------ navigation
\* fetchThreadAndProject: the thread page mounts and loads the thread.
OpenThread(t, tid) ==
    /\ pc[t] = "idle"
    /\ tid \in DOMAIN threads
    /\ \/ thread[t] # [id |-> tid, status |-> threads[tid].status]
       \/ lastResponse[t] # fetchResponses(tid)
       \/ formError[t] # ""
    /\ thread' = [thread EXCEPT ![t] = [id |-> tid, status |-> threads[tid].status]]
    /\ lastResponse' = [lastResponse EXCEPT ![t] = fetchResponses(tid)]
    /\ formError' = [formError EXCEPT ![t] = ""]
    /\ showCloseModal' = [showCloseModal EXCEPT ![t] = FALSE]
    /\ showDeleteConfirm' = [showDeleteConfirm EXCEPT ![t] = FALSE]
    /\ UNCHANGED <<project, threads, responses, threadSeq, responseSeq, pc,
                   pendingDeletes, failures, statusWriters, scenario,
                   deletedStatus, notifications, now, docRef, outside>>

\* "Back to project": the thread page unmounts.
BackToProject(t) ==
    /\ pc[t] = "idle"
    /\ thread[t] # NoThread
    /\ thread' = [thread EXCEPT ![t] = NoThread]
    /\ lastResponse' = [lastResponse EXCEPT ![t] = NoResponse]
    /\ formError' = [formError EXCEPT ![t] = ""]
    /\ showCloseModal' = [showCloseModal EXCEPT ![t] = FALSE]
    /\ showDeleteConfirm' = [showDeleteConfirm EXCEPT ![t] = FALSE]
    /\ UNCHANGED <<project, threads, responses, threadSeq, responseSeq, pc,
                   pendingDeletes, failures, statusWriters, scenario,
                   deletedStatus, notifications, now, docRef, outside>>

\* ------------------------------------------------- handleNewThreadSubmit
NewThreadAddDoc(t) ==
    /\ pc[t] = "idle"
    /\ thread[t] = NoThread
    /\ threadSeq < MaxThreads
    /\ \/ /\ ThreadCreateAllowed(currentUser[t])
          /\ threads' = threads @@ ((threadSeq + 1) :> NewThreadDoc(t))
          /\ threadSeq' = threadSeq + 1
          /\ pc' = [pc EXCEPT ![t] = "nt_inc"]
          /\ docRef' = [docRef EXCEPT ![t] = threadSeq + 1]
          /\ now' = now + 1
          /\ formError' = [formError EXCEPT ![t] = ""]
          /\ UNCHANGED failures
       \/ /\ CanFail
          /\ NoteFailure
          /\ formError' = [formError EXCEPT ![t] = ThreadError]
          /\ UNCHANGED <<threads, threadSeq, pc, docRef, now>>
    /\ UNCHANGED <<project, responses, responseSeq, thread, showCloseModal,
                   showDeleteConfirm, pendingDeletes, statusWriters, scenario,
                   deletedStatus, lastResponse, notifications, outside>>

\* Faulty variant: a failed increment is made up for by deleting the thread.
NewThreadIncrementCompensates(t) ==
    /\ pc[t] = "nt_inc"
    /\ \/ /\ ProjectUpdateAllowed(currentUser[t], {"totalIssues"})
          /\ CountersInRange(IncrementTotalIssues(project))
          /\ project' = IncrementTotalIssues(project)
          /\ notifications' = NewIssueNotifications
          /\ UNCHANGED <<failures, formError, threads>>
       \/ /\ CanFail
          /\ NoteFailure
          /\ formError' = [formError EXCEPT ![t] = ThreadError]
          /\ threads' = Without(threads, docRef[t])
          /\ UNCHANGED <<project, notifications>>
    /\ pc' = [pc EXCEPT ![t] = "idle"]
    /\ docRef' = [docRef EXCEPT ![t] = 0]
    /\ UNCHANGED <<responses, threadSeq, responseSeq, thread, showCloseModal,
                   showDeleteConfirm, pendingDeletes, statusWriters, scenario,
                   deletedStatus, lastResponse, now, outside>>

NewThreadIncrement(t) ==
    /\ pc[t] = "nt_inc"
    /\ \/ /\ ProjectUpdateAllowed(currentUser[t], {"totalIssues"})
          /\ CountersInRange(IncrementTotalIssues(project))
          /\ project' = IncrementTotalIssues(project)
          /\ notifications' = NewIssueNotifications
          /\ UNCHANGED <<failures, formError>>
       \/ /\ CanFail
          /\ NoteFailure
          /\ formError' = [formError EXCEPT ![t] = ThreadError]
          /\ UNCHANGED <<project, notifications>>
    /\ pc' = [pc EXCEPT ![t] = "idle"]
    /\ docRef' = [docRef EXCEPT ![t] = 0]
    /\ UNCHANGED <<threads, responses, threadSeq, responseSeq, thread, showCloseModal,
                   showDeleteConfirm, pendingDeletes, statusWriters, scenario,
                   deletedStatus, lastResponse, now, outside>>

\* -------------------------------------------------- handleSubmitResponse
SubmitResponseAddDoc(t) ==
    /\ pc[t] = "idle"
    /\ thread[t] # NoThread
    /\ thread[t].status # "closed"
    /\ responseSeq < MaxResponses
    /\ \/ /\ ResponseCreateAllowed(currentUser[t])
          /\ responses' = responses @@ ((responseSeq + 1) :> NewResponseDoc(t))
          /\ responseSeq' = responseSeq + 1
          /\ pc' = [pc EXCEPT ![t] = "sr_inc"]
          /\ docRef' = [docRef EXCEPT ![t] = responseSeq + 1]
          /\ now' = now + 1
          /\ formError' = [formError EXCEPT ![t] = ""]
          /\ UNCHANGED failures
       \/ /\ CanFail
          /\ NoteFailure
          /\ formError' = [formError EXCEPT ![t] = ResponseError]
          /\ UNCHANGED <<responses, responseSeq, pc, docRef, now>>
    /\ UNCHANGED <<project, threads, threadSeq, thread, showCloseModal,
                   showDeleteConfirm, pendingDeletes, statusWriters, scenario,
                   deletedStatus, lastResponse, notifications, outside>>

\* The failure of the responseCount update is logged and the handler goes on.
SubmitResponseIncrement(t) ==
    /\ pc[t] = "sr_inc"
    /\ LET tid == thread[t].id IN
       \/ /\ tid \in DOMAIN threads
          /\ ThreadUpdateAllowed(currentUser[t])
          /\ threads' = [threads EXCEPT ![tid] = IncrementResponseCount(@)]
          /\ UNCHANGED failures
       \/ /\ tid \notin DOMAIN threads \/ CanFail
          /\ NoteFailure
          /\ UNCHANGED threads
    /\ notifications' = NewResponseNotifications(t)
    /\ lastResponse' = [lastResponse EXCEPT ![t] = fetchResponses(thread[t].id)]
    /\ pc' = [pc EXCEPT ![t] = "idle"]
    /\ docRef' = [docRef EXCEPT ![t] = 0]
    /\ UNCHANGED <<project, responses, threadSeq, responseSeq, thread, showCloseModal,
                   showDeleteConfirm, pendingDeletes, statusWriters, scenario,
                   deletedStatus, formError, now, outside>>

\* ---------------------------------------- handleUpdateStatus('closed')
OpenCloseModal(t) ==
    /\ pc[t] = "idle"
    /\ thread[t] # NoThread
    /\ currentUser[t] # NULL
    /\ currentUser[t] = project.ownerId
    /\ thread[t].status # "closed"
    /\ ~showCloseModal[t]
    /\ showCloseModal' = [showCloseModal EXCEPT ![t] = TRUE]
    /\ UNCHANGED <<project, threads, responses, threadSeq, responseSeq, thread, pc,
                   showDeleteConfirm, pendingDeletes, failures, statusWriters, scenario,
                   deletedStatus, formError, lastResponse, notifications, now,
                   docRef, outside>>

CancelCloseModal(t) ==
    /\ pc[t] = "idle"
    /\ showCloseModal[t]
    /\ showCloseModal' = [showCloseModal EXCEPT ![t] = FALSE]
    /\ UNCHANGED <<project, threads, responses, threadSeq, responseSeq, thread, pc,
                   showDeleteConfirm, pendingDeletes, failures, statusWriters, scenario,
                   deletedStatus, formError, lastResponse, notifications, now,
                   docRef, outside>>

\* ------------------------------------------------------ handleCloseThread
CloseThreadUpdate(t, reason, note) ==
    /\ pc[t] = "idle"
    /\ showCloseModal[t]
    /\ thread[t] # NoThread
    /\ currentUser[t] # NULL
    /\ LET tid == thread[t].id IN
       \/ /\ tid \in DOMAIN threads
          /\ ThreadUpdateAllowed(currentUser[t])
          /\ threads' = [threads EXCEPT ![tid] = CloseFields(@, t, reason, note)]
          /\ statusWriters' = statusWriters \cup {currentUser[t]}
          /\ pc' = [pc EXCEPT ![t] = "cl_inc"]
          /\ scenario' = IF threads[tid].status = "open"
                         THEN [stage |-> "closing", tab |-> t, thread |-> tid,
                               base |-> project.closedIssues, reason |-> reason]
                         ELSE NoScenario
          /\ UNCHANGED failures
       \/ /\ tid \notin DOMAIN threads \/ CanFail
          /\ NoteFailure
          /\ scenario' = NoScenario
          /\ UNCHANGED <<threads, statusWriters, pc>>
    /\ UNCHANGED <<project, responses, threadSeq, responseSeq, thread, showCloseModal,
                   showDeleteConfirm, pendingDeletes,
                   deletedStatus, formError, lastResponse, notifications, now,
                   docRef, outside>>

CloseThreadIncrement(t) ==
    /\ pc[t] = "cl_inc"
    /\ \/ /\ ProjectUpdateAllowed(currentUser[t], {"closedIssues"})
          /\ CountersInRange(IncrementClosedIssues(project))
          /\ project' = IncrementClosedIssues(project)
          /\ thread' = [thread EXCEPT ![t].status = "closed"]
          /\ showCloseModal' = [showCloseModal EXCEPT ![t] = FALSE]
          /\ scenario' = IF scenario.stage = "closing" /\ scenario.tab = t
                         THEN [scenario EXCEPT !.stage = "closed"] ELSE NoScenario
          /\ UNCHANGED failures
       \/ /\ CanFail
          /\ NoteFailure
          /\ scenario' = NoScenario
          /\ UNCHANGED <<project, thread, showCloseModal>>
    /\ pc' = [pc EXCEPT ![t] = "idle"]
    /\ UNCHANGED <<threads, responses, threadSeq, responseSeq, showDeleteConfirm,
                   pendingDeletes, statusWriters,
                   deletedStatus, formError, lastResponse, notifications, now,
                   docRef, outside>>

\* ------------------------------------------ handleUpdateStatus('open')
ReopenUpdate(t) ==
    /\ pc[t] = "idle"
    /\ thread[t] # NoThread
    /\ currentUser[t] # NULL
    /\ currentUser[t] = project.ownerId
    /\ thread[t].status = "closed"
    /\ LET tid == thread[t].id IN
       \/ /\ tid \in DOMAIN threads
          /\ ThreadUpdateAllowed(currentUser[t])
          /\ threads' = [threads EXCEPT ![tid] = ReopenFields(@)]
          /\ statusWriters' = statusWriters \cup {currentUser[t]}
          /\ pc' = [pc EXCEPT ![t] = "ro_dec"]
          /\ scenario' = IF scenario.stage = "closed" /\ scenario.tab = t
                            /\ scenario.thread = tid
                         THEN [scenario EXCEPT !.stage = "reopening"] ELSE NoScenario
          /\ UNCHANGED failures
       \/ /\ tid \notin DOMAIN threads \/ CanFail
          /\ NoteFailure
          /\ scenario' = NoScenario
          /\ UNCHANGED <<threads, statusWriters, pc>>
    /\ UNCHANGED <<project, responses, threadSeq, responseSeq, thread, showCloseModal,
                   showDeleteConfirm, pendingDeletes,
                   deletedStatus, formError, lastResponse, notifications, now,
                   docRef, outside>>

ReopenDecrement(t) ==
    /\ pc[t] = "ro_dec"
    /\ \/ /\ ProjectUpdateAllowed(currentUser[t], {"closedIssues"})
          /\ CountersInRange(DecrementClosedIssues(project))
          /\ project' = DecrementClosedIssues(project)
          /\ thread' = [thread EXCEPT ![t].status = "open"]
          /\ scenario' = IF scenario.stage = "reopening" /\ scenario.tab = t
                         THEN [scenario EXCEPT !.stage = "reopened"] ELSE NoScenario
          /\ UNCHANGED failures
       \/ /\ CanFail
          /\ NoteFailure
          /\ scenario' = NoScenario
          /\ UNCHANGED <<project, thread>>
    /\ pc' = [pc EXCEPT ![t] = "idle"]
    /\ UNCHANGED <<threads, responses, threadSeq, responseSeq, showCloseModal,
                   showDeleteConfirm, pendingDeletes, statusWriters,
                   deletedStatus, formError, lastResponse, notifications, now,
                   docRef, outside>>

\* ----------------------------------------------------- handleDeleteThread
OpenDeleteConfirm(t) ==
    /\ pc[t] = "idle"
    /\ thread[t] # NoThread
    /\ isFounder(t)
    /\ thread[t].status # "closed"
    /\ ~showDeleteConfirm[t]
    /\ showDeleteConfirm' = [showDeleteConfirm EXCEPT ![t] = TRUE]
    /\ UNCHANGED <<project, threads, responses, threadSeq, responseSeq, thread, pc,
                   showCloseModal, pendingDeletes, failures, statusWriters, scenario,
                   deletedStatus, formError, lastResponse, notifications, now,
                   docRef, outside>>

CancelDeleteConfirm(t) ==
    /\ pc[t] = "idle"
    /\ showDeleteConfirm[t]
    /\ showDeleteConfirm' = [showDeleteConfirm EXCEPT ![t] = FALSE]
    /\ UNCHANGED <<project, threads, responses, threadSeq, responseSeq, thread, pc,
                   showCloseModal, pendingDeletes, failures, statusWriters, scenario,
                   deletedStatus, formError, lastResponse, notifications, now,
                   docRef, outside>>

\* getDocs(responses where threadId == thread.id), then one deleteDoc per
\* document of the snapshot, all issued at once (Promise.all).
DeleteThreadQuery(t) ==
    /\ pc[t] = "idle"
    /\ showDeleteConfirm[t]
    /\ thread[t] # NoThread
    /\ currentUser[t] # NULL
    /\ currentUser[t] = project.ownerId
    /\ pendingDeletes[t] = {}
    /\ pendingDeletes' = [pendingDeletes EXCEPT ![t] = ResponsesOf(thread[t].id)]
    /\ pc' = [pc EXCEPT ![t] =
                 IF ResponsesOf(thread[t].id) = {} THEN "dl_thread" ELSE "dl_resps"]
    /\ scenario' = NoScenario
    /\ UNCHANGED <<project, threads, responses, threadSeq, responseSeq, thread,
                   showCloseModal, showDeleteConfirm, failures, statusWriters,
                   deletedStatus, formError, lastResponse, notifications, now,
                   docRef, outside>>

\* The store handles one of the response deletes.  Promise.all rejects at the
\* first failure (the handler's catch runs) while the other deletes stay in
\* flight.
DeleteResponse(t, rid) ==
    /\ rid \in pendingDeletes[t]
    /\ pendingDeletes' = [pendingDeletes EXCEPT ![t] = @ \ {rid}]
    /\ \/ /\ ResponseDeleteAllowed(currentUser[t], rid)
          /\ responses' = Without(responses, rid)
          /\ pc' = [pc EXCEPT ![t] =
                       IF @ = "dl_resps" /\ pendingDeletes[t] = {rid} THEN "dl_thread" ELSE @]
          /\ UNCHANGED <<failures, showDeleteConfirm>>
       \/ /\ ~ResponseDeleteAllowed(currentUser[t], rid) \/ CanFail
          /\ NoteFailure
          /\ pc' = [pc EXCEPT ![t] = IF @ = "dl_resps" THEN "idle" ELSE @]
          /\ showDeleteConfirm' = [showDeleteConfirm EXCEPT ![t] =
                                      IF pc[t] = "dl_resps" THEN FALSE ELSE @]
          /\ UNCHANGED responses
    /\ UNCHANGED <<project, threads, threadSeq, responseSeq, thread, showCloseModal,
                   statusWriters, scenario,
                   deletedStatus, formError, lastResponse, notifications, now,
                   docRef, outside>>

DeleteThreadDoc(t) ==
    /\ pc[t] = "dl_thread"
    /\ \/ /\ ThreadDeleteAllowed(currentUser[t], thread[t].id)
          /\ threads' = Without(threads, thread[t].id)
          /\ pc' = [pc EXCEPT ![t] = "dl_counters"]
          /\ deletedStatus' = [deletedStatus EXCEPT ![t] = threads[thread[t].id].status]
          /\ UNCHANGED <<failures, showDeleteConfirm>>
       \/ /\ ~ThreadDeleteAllowed(currentUser[t], thread[t].id) \/ CanFail
          /\ NoteFailure
          /\ pc' = [pc EXCEPT ![t] = "idle"]
          /\ showDeleteConfirm' = [showDeleteConfirm EXCEPT ![t] = FALSE]
          /\ UNCHANGED <<threads, deletedStatus>>
    /\ scenario' = NoScenario
    /\ UNCHANGED <<project, responses, threadSeq, responseSeq, thread, showCloseModal,
                   pendingDeletes, statusWriters, formError, lastResponse, notifications, now,
                   docRef, outside>>

\* The counters update, then navigate(`/${projectSlug}`).
DeleteThreadCounters(t) ==
    /\ pc[t] = "dl_counters"
    /\ \/ /\ ProjectUpdateAllowed(currentUser[t], {"totalIssues", "closedIssues"})
          /\ CountersInRange(DeleteCounters(project, thread[t]))
          /\ project' = DeleteCounters(project, thread[t])
          /\ thread' = [thread EXCEPT ![t] = NoThread]
          /\ lastResponse' = [lastResponse EXCEPT ![t] = NoResponse]
          /\ formError' = [formError EXCEPT ![t] = ""]
          /\ showCloseModal' = [showCloseModal EXCEPT ![t] = FALSE]
          /\ showDeleteConfirm' = [showDeleteConfirm EXCEPT ![t] = FALSE]
          /\ UNCHANGED failures
       \/ /\ CanFail
          /\ NoteFailure
          /\ showDeleteConfirm' = [showDeleteConfirm EXCEPT ![t] = FALSE]
          /\ UNCHANGED <<project, thread, showCloseModal, lastResponse, formError>>
    /\ pc' = [pc EXCEPT ![t] = "idle"]
    /\ deletedStatus' = [deletedStatus EXCEPT ![t] = NULL]
    /\ scenario' = NoScenario
    /\ UNCHANGED <<threads, responses, threadSeq, responseSeq, pendingDeletes,
                   statusWriters, notifications, now, docRef, outside>>

\* ------------------------------------------- email notification worker
BaseFields == {"projectId", "projectName", "issueId", "issueTitle"}

\* A recipient entry of the request: an entry without email has email NULL.
RecipientChoices ==
    {[email |-> "a@x", name |-> "Ann"], [email |-> "b@x", name |-> NULL],
     [email |-> NULL, name |-> NULL]}

RECURSIVE SeqsUpTo(_, _)
SeqsUpTo(S, n) ==
    IF n = 0 THEN {<<>>}
    ELSE LET shorter == SeqsUpTo(S, n - 1)
         IN  shorter \cup {Append(q, x) : q \in {r \in shorter : Len(r) = n - 1}, x \in S}

\* The `recipients` field: absent, a value that is no array, or an array.
RecipientsValues ==
    {[kind |-> "absent", items |-> <<>>], [kind |-> "string", items |-> <<>>]}
        \cup {[kind |-> "array", items |-> q] : q \in SeqsUpTo(RecipientChoices, MaxRecipients)}

NoRequest ==
    [body |-> "none", type |-> NULL, fields |-> {},
     recipients |-> [kind |-> "absent", items |-> <<>>],
     issueContent |-> FALSE, responseContent |-> FALSE, responseAuthor |-> FALSE]

\* The bodies a client can post: a JSON object with any of the fields present
\* or missing, the JSON value null, or text that is no JSON.
ObjectBodies ==
    [body : {"object"},
     type : {NULL, "new_issue", "new_response", "bogus"},
     fields : SUBSET BaseFields,
     recipients : RecipientsValues,
     issueContent : BOOLEAN, responseContent : BOOLEAN, responseAuthor : BOOLEAN]

Bodies == ObjectBodies \cup {[NoRequest EXCEPT !.body = "null"],
                             [NoRequest EXCEPT !.body = "malformed"]}

\* The body of the worker's README and of test-simple.js: every issue field
\* and founderEmail (which the handler never reads), no type, no recipients.
LegacyBody ==
    [body |-> "object", type |-> NULL, fields |-> BaseFields,
     recipients |-> [kind |-> "absent", items |-> <<>>],
     issueContent |-> TRUE, responseContent |-> FALSE, responseAuthor |-> FALSE]

NoReply == [status |-> 0, success |-> FALSE, successCount |-> -1, message |-> NULL]

Json(status, success, count, message) ==
    [status |-> status, success |-> success, successCount |-> count, message |-> message]

\* Faulty variant: the validation stops after the recipients and never looks at the
\* type-specific fields.
ValidateSkipsTypeFields(key, data) ==
    IF ~key THEN Json(500, FALSE, -1, "Failed to send email notification")
    ELSE IF data.body # "object" THEN Json(500, FALSE, -1, "Failed to send email notification")
    ELSE IF data.type = NULL THEN Json(400, FALSE, -1, "Missing required field: type")
    ELSE IF data.type \notin {"new_issue", "new_response"}
        THEN Json(400, FALSE, -1, "Invalid notification type")
    ELSE IF ~(BaseFields \subseteq data.fields) \/ data.recipients.kind = "absent"
        THEN Json(400, FALSE, -1, "Missing required field")
    ELSE IF data.recipients.kind # "array" \/ Len(data.recipients.items) = 0
        THEN Json(400, FALSE, -1, "Recipients must be a non-empty array")
    ELSE IF \E i \in 1..Len(data.recipients.items) : data.recipients.items[i].email = NULL
        THEN Json(400, FALSE, -1, "Each recipient must have an email address")
    ELSE NoReply

\* The validation of app.post('/api/send-email'), in the order of the code:
\* the reply it returns or throws into the catch, or NoReply when the body passes.
Validate(key, data) ==
    IF ~key THEN Json(500, FALSE, -1, "Failed to send email notification")
    ELSE IF data.body # "object" THEN Json(500, FALSE, -1, "Failed to send email notification")
    ELSE IF data.type = NULL THEN Json(400, FALSE, -1, "Missing required field: type")
    ELSE IF data.type \notin {"new_issue", "new_response"}
        THEN Json(400, FALSE, -1, "Invalid notification type")
    ELSE IF ~(BaseFields \subseteq data.fields) \/ data.recipients.kind = "absent"
        THEN Json(400, FALSE, -1, "Missing required field")
    ELSE IF data.recipients.kind # "array" \/ Len(data.recipients.items) = 0
        THEN Json(400, FALSE, -1, "Recipients must be a non-empty array")
    ELSE IF \E i \in 1..Len(data.recipients.items) : data.recipients.items[i].email = NULL
        THEN Json(400, FALSE, -1, "Each recipient must have an email address")
    ELSE IF data.type = "new_issue" /\ ~data.issueContent
        THEN Json(400, FALSE, -1, "Missing required field: issueContent")
    ELSE IF data.type = "new_response" /\ (~data.responseContent \/ ~data.responseAuthor)
        THEN Json(400, FALSE, -1, "Missing required fields for response notification")
    ELSE NoReply

\* The EmailOptions built for one recipient.
EmailOptionsFor(recipient) ==
    [to |-> <<[name |-> IF recipient.name = NULL THEN "User" ELSE recipient.name,
               email |-> recipient.email]>>,
     bcc |-> <<>>]

\* sendEmail: the message handed to sgMail.send (bcc only when the options carry one).
SendGridMsg(email) ==
    [to |-> [i \in 1..Len(email.to) |-> [email |-> email.to[i].email, name |-> email.to[i].name]],
     bcc |-> [i \in 1..Len(email.bcc) |-> [email |-> email.bcc[i].email, name |-> email.bcc[i].name]]]

\* Faulty variant: a loop that awaits each send and leaves at the first one, so only
\* the first recipient is ever sent to.
FanOutFirstOnly(recipients) ==
    [i \in 1..1 |-> SendGridMsg(EmailOptionsFor(recipients[i]))]

\* Faulty variant: one message per recipient, each addressed to the whole list.
FanOutSharedMessage(recipients) ==
    [i \in 1..Len(recipients) |->
        SendGridMsg([to |-> [j \in 1..Len(recipients) |-> EmailOptionsFor(recipients[j]).to[1]],
                     bcc |-> <<>>])]

\* notification.recipients.map(...): every callback runs to its await, so the
\* sends are all issued before any of them settles.
FanOut(recipients) ==
    [i \in 1..Len(recipients) |-> SendGridMsg(EmailOptionsFor(recipients[i]))]

SuccessCount(res) == Cardinality({i \in 1..Len(res) : res[i] = "ok"})

\* Faulty variant: any failed send turns the reply into a full failure.
FinalReplyEscalates(res, errs) ==
    LET successCount == SuccessCount(res) IN
    IF successCount = Len(res)
    THEN Json(200, TRUE, successCount, "Email notifications sent successfully")
    ELSE Json(500, FALSE, successCount, "Sent some of the notifications")

\* The reply after Promise.all.
FinalReply(res, errs) ==
    LET successCount == SuccessCount(res) IN
    IF successCount = Len(res)
    THEN Json(200, TRUE, successCount, "Email notifications sent successfully")
    ELSE Json(IF Len(errs) = Len(res) THEN 500 ELSE 207, successCount > 0, successCount,
              "Sent some of the notifications")

InitDispatcher ==
    /\ dpc = "idle"
    /\ apiKey = TRUE
    /\ request = NoRequest
    /\ outbox = <<>>
    /\ results = <<>>
    /\ errors = <<>>
    /\ reply = NoReply

\* A request arrives; the handler runs up to the reply or to `await Promise.all`.
HandleRequest(key, data) ==
    /\ dpc = "idle"
    /\ apiKey' = key
    /\ request' = data
    /\ errors' = <<>>
    /\ IF Validate(key, data) # NoReply
       THEN /\ reply' = Validate(key, data)
            /\ outbox' = <<>>
            /\ results' = <<>>
            /\ dpc' = "responded"
       ELSE /\ outbox' = FanOut(data.recipients.items)
            /\ results' = [i \in 1..Len(data.recipients.items) |-> "pending"]
            /\ reply' = NoReply
            /\ dpc' = "sending"
    /\ UNCHANGED lifecycleVars

\* One send settles: sendEmail resolves, or rejects and the callback's catch
\* records the error.
SendSettles(i, ok) ==
    /\ dpc = "sending"
    /\ i \in 1..Len(results)
    /\ results[i] = "pending"
    /\ results' = [results EXCEPT ![i] = IF ok THEN "ok" ELSE "failed"]
    /\ errors' = IF ok THEN errors
                 ELSE Append(errors, [recipient |-> request.recipients.items[i].email,
                                      error |-> "send failed"])
    /\ UNCHANGED <<dpc, apiKey, request, outbox, reply, lifecycleVars>>

Respond ==
    /\ dpc = "sending"
    /\ \A i \in 1..Len(results) : results[i] # "pending"
    /\ reply' = FinalReply(results, errors)
    /\ dpc' = "responded"
    /\ UNCHANGED <<apiKey, request, outbox, results, errors, lifecycleVars>>

\* The worker is ready for the next request.
NextRequest ==
    /\ dpc = "responded"
    /\ dpc' = "idle"
    /\ request' = NoRequest
    /\ outbox' = <<>>
    /\ results' = <<>>
    /\ errors' = <<>>
    /\ reply' = NoReply
    /\ UNCHANGED <<apiKey, lifecycleVars>>

\* ----------------------------------------------------------- image relay
\* A content type is the sequence of its characters.
ImagePrefix == <<"i", "m", "a", "g", "e", "/">>

ContentTypes ==
    {<<"i", "m", "a", "g", "e", "/", "p", "n", "g">>,
     <<"i", "m", "a", "g", "e", "/", "g", "i", "f">>,
     <<"i", "m", "a", "g", "e", "/">>,
     <<"i", "m", "a", "g", "e">>,
     <<"i", "m", "a", "g", "e", "s", "/", "x">>,
     <<"t", "e", "x", "t", "/", "i", "m", "a", "g", "e", "/">>,
     <<"t", "e", "x", "t", "/", "p">>,
     <<>>}

\* formData.get('file'): no entry, a text entry, or a File with its type; a
\* body that is no form data makes formData() throw.
Uploads ==
    {[kind |-> "notform", type |-> <<>>], [kind |-> "none", type |-> <<>>],
     [kind |-> "string", type |-> <<>>]}
        \cup {[kind |-> "file", type |-> ty] : ty \in ContentTypes}

NoUpload == [kind |-> "idle", type |-> <<>>]

\* String.prototype.startsWith
startsWith(s, prefix) ==
    Len(s) >= Len(prefix) /\ SubSeq(s, 1, Len(prefix)) = prefix

\* file.type.split('/')[1] || 'png'
RECURSIVE UpToSlash(_)
UpToSlash(s) ==
    IF s = <<>> \/ Head(s) = "/" THEN <<>> ELSE <<Head(s)>> \o UpToSlash(Tail(s))

fileExtension(type) ==
    LET first == UpToSlash(type)
        rest == IF Len(first) < Len(type) THEN SubSeq(type, Len(first) + 2, Len(type)) ELSE <<>>
        second == UpToSlash(rest)
    IN  IF Len(first) = Len(type) \/ second = <<>> THEN <<"p", "n", "g">> ELSE second

RelayJson(status, success, key) == [status |-> status, success |-> success, key |-> key]

NoRelayReply == RelayJson(0, FALSE, NULL)

\* Faulty variant: the type test is left out, as if the relay trusted the client.
ImageUploadChecksNoTypeTest(file) ==
    IF file.kind = "notform" THEN RelayJson(500, FALSE, NULL)
    ELSE IF file.kind = "none" THEN RelayJson(400, FALSE, NULL)
    ELSE IF file.kind = "string" THEN RelayJson(500, FALSE, NULL)
    ELSE NoRelayReply

\* The checks of ImageUpload before the upload: the reply they return (or the
\* catch returns: `type` of a text entry is undefined), or NoRelayReply when
\* the file goes on to the store.
ImageUploadChecks(file) ==
    IF file.kind = "notform" THEN RelayJson(500, FALSE, NULL)
    ELSE IF file.kind = "none" THEN RelayJson(400, FALSE, NULL)
    ELSE IF file.kind = "string" THEN RelayJson(500, FALSE, NULL)
    ELSE IF ~startsWith(file.type, ImagePrefix) THEN RelayJson(400, FALSE, NULL)
    ELSE NoRelayReply

InitRelay ==
    /\ rpc = "idle"
    /\ upload = NoUpload
    /\ bucket = <<>>
    /\ relayReply = NoRelayReply

\* POST /api/images/upload: the handler up to its reply or to the awaited put.
ImageUpload(file) ==
    /\ rpc = "idle"
    /\ upload' = file
    /\ IF ImageUploadChecks(file) # NoRelayReply
       THEN rpc' = "responded" /\ relayReply' = ImageUploadChecks(file)
       ELSE rpc' = "putting" /\ relayReply' = NoRelayReply
    /\ UNCHANGED <<bucket, project, threads, responses, threadSeq, responseSeq, currentUser,
                   thread, pc, showCloseModal, showDeleteConfirm, pendingDeletes, failures,
                   statusWriters, scenario, tabs, deletedStatus, formError, lastResponse, users,
                   now, notifications, docRef, lastCall, dispatcherVars, anonVars, slugVars, xfer,
                   lastRequest>>

\* PROJECT_LOGOS.put resolves and the key is returned, or it rejects into the catch.
ImageUploadPut(ok) ==
    /\ rpc = "putting"
    /\ ok => Len(bucket) < MaxObjects
    /\ IF ok
       THEN LET key == [uuid |-> Len(bucket) + 1, ext |-> fileExtension(upload.type)]
            IN  /\ bucket' = Append(bucket, [key |-> key, contentType |-> upload.type])
                /\ relayReply' = RelayJson(200, TRUE, key)
       ELSE /\ bucket' = bucket
            /\ relayReply' = RelayJson(500, FALSE, NULL)
    /\ rpc' = "responded"
    /\ UNCHANGED <<upload, project, threads, responses, threadSeq, responseSeq, currentUser,
                   thread, pc, showCloseModal, showDeleteConfirm, pendingDeletes, failures,
                   statusWriters, scenario, tabs, deletedStatus, formError, lastResponse, users,
                   now, notifications, docRef, lastCall, dispatcherVars, anonVars, slugVars, xfer,
                   lastRequest>>

\* The relay is ready for the next request.
RelayNext ==
    /\ rpc = "responded"
    /\ rpc' = "idle"
    /\ upload' = NoUpload
    /\ relayReply' = NoRelayReply
    /\ UNCHANGED <<bucket, project, threads, responses, threadSeq, responseSeq, currentUser,
                   thread, pc, showCloseModal, showDeleteConfirm, pendingDeletes, failures,
                   statusWriters, scenario, tabs, deletedStatus, formError, lastResponse, users,
                   now, notifications, docRef, lastCall, dispatcherVars, anonVars, slugVars, xfer,
                   lastRequest>>

\* ---------------------------------------------------- anonymous identity
\* Math.floor(10000000 + Math.random() * 90000000) as a string: the least and
\* the greatest outcome.
RandomIds == {"10000000", "99999999"}

\* generateMemorableUsername: adjective, noun and a number of 10..999.
RandomNames == {"HappyTiger10", "CalmOtter999"}

\* What an item of the storage can hold before the first call: nothing, the
\* empty string, or a value stored by an earlier visit.
StoredIds == {NULL, "", "10000001"}
StoredNames == {NULL, "", "BraveFox42"}

\* !value of a string item: null and the empty string are falsy.
Falsy(value) == value = NULL \/ value = ""

InitAnon ==
    /\ localStorage \in [id : StoredIds, name : StoredNames]
    /\ storageFull \in BOOLEAN
    /\ idCalls = <<>>
    /\ nameCalls = <<>>

\* Faulty variant: a fresh id is returned but never stored.
StoreIdForgets(store, rnd) == store

\* localStorage.setItem(ANONYMOUS_USER_ID_KEY, userId)
StoreId(store, rnd) == [store EXCEPT !.id = rnd]

\* localStorage.setItem(ANONYMOUS_USER_NAME_KEY, userName)
StoreName(store, rnd) == [store EXCEPT !.name = rnd]

\* One call of getAnonymousUserId: "threw" when setItem throws.
getAnonymousUserId(rnd) ==
    /\ Len(idCalls) < MaxCalls
    /\ IF ~Falsy(localStorage.id)
       THEN /\ idCalls' = Append(idCalls, localStorage.id)
            /\ UNCHANGED localStorage
       ELSE IF storageFull
       THEN /\ idCalls' = Append(idCalls, "threw")
            /\ UNCHANGED localStorage
       ELSE /\ localStorage' = StoreId(localStorage, rnd)
            /\ idCalls' = Append(idCalls, rnd)
    /\ UNCHANGED <<storageFull, nameCalls, project, threads, responses, threadSeq, responseSeq,
                   currentUser, thread, pc, showCloseModal, showDeleteConfirm, pendingDeletes,
                   failures, statusWriters, scenario, tabs, deletedStatus, formError,
                   lastResponse, users, now, notifications, docRef, lastCall, dispatcherVars,
                   relayVars, slugVars, xfer, lastRequest>>

\* One call of getAnonymousUserName.
getAnonymousUserName(rnd) ==
    /\ Len(nameCalls) < MaxCalls
    /\ IF ~Falsy(localStorage.name)
       THEN /\ nameCalls' = Append(nameCalls, localStorage.name)
            /\ UNCHANGED localStorage
       ELSE IF storageFull
       THEN /\ nameCalls' = Append(nameCalls, "threw")
            /\ UNCHANGED localStorage
       ELSE /\ localStorage' = StoreName(localStorage, rnd)
            /\ nameCalls' = Append(nameCalls, rnd)
    /\ UNCHANGED <<storageFull, idCalls, project, threads, responses, threadSeq, responseSeq,
                   currentUser, thread, pc, showCloseModal, showDeleteConfirm, pendingDeletes,
                   failures, statusWriters, scenario, tabs, deletedStatus, formError,
                   lastResponse, users, now, notifications, docRef, lastCall, dispatcherVars,
                   relayVars, slugVars, xfer, lastRequest>>

\* ----------------------------------------------------------- project forms
\* A name or a slug is the sequence of its characters.
Users == {Owner, OtherUser}

Acme == <<"A", "c", "m", "e">>

ProjectNames == {Acme, <<"A", "c", "m", "e", " ", "1">>, <<"a", "C", "M", "E", "!">>}

\* String.prototype.toLowerCase, on the characters of the names.
toLowerCase(c) ==
    CASE c = "A" -> "a" [] c = "C" -> "c" [] c = "M" -> "m" [] c = "E" -> "e" [] OTHER -> c

\* [a-z0-9]
AlphaNumeric == {"a", "c", "m", "e", "0", "1", "2", "3", "4", "5", "6", "7", "8", "9"}

\* .replace(/[^a-z0-9]+/g, '-'): every run of other characters becomes one hyphen.
RECURSIVE replaceRuns(_, _)
replaceRuns(s, inRun) ==
    IF s = <<>> THEN <<>>
    ELSE IF Head(s) \in AlphaNumeric THEN <<Head(s)>> \o replaceRuns(Tail(s), FALSE)
    ELSE IF inRun THEN replaceRuns(Tail(s), TRUE)
    ELSE <<"-">> \o replaceRuns(Tail(s), TRUE)

\* .replace(/^-+|-+$/g, '')
RECURSIVE trimHyphens(_)
trimHyphens(s) ==
    IF s = <<>> THEN <<>>
    ELSE IF Head(s) = "-" THEN trimHyphens(Tail(s))
    ELSE IF s[Len(s)] = "-" THEN trimHyphens(SubSeq(s, 1, Len(s) - 1))
    ELSE s

SlugLimit == 60

\* .substring(0, 60)
substring(s, n) == IF Len(s) <= n THEN s ELSE SubSeq(s, 1, n)

generateSlug(projectName) ==
    substring(trimHyphens(replaceRuns([i \in 1..Len(projectName) |-> toLowerCase(projectName[i])],
                                      FALSE)),
              SlugLimit)

\* The decimal digits of a counter, as `${counter}` writes them.
RECURSIVE digits(_)
digits(n) ==
    LET d == <<"0", "1", "2", "3", "4", "5", "6", "7", "8", "9">>[(n % 10) + 1]
    IN  IF n < 10 THEN <<d>> ELSE digits(n \div 10) \o <<d>>

\* `${baseSlug}-${counter}`
suffixed(baseSlug, counter) == baseSlug \o <<"-">> \o digits(counter)

\* isSlugAvailable: the query where('slug', '==', slug) is empty.
isSlugAvailable(slug) == \A i \in 1..Len(projectDocs) : projectDocs[i].slug # slug

NoForm ==
    [pc |-> "idle", kind |-> "none", target |-> 0, name |-> <<>>, originalSlug |-> <<>>,
     baseSlug |-> <<>>, slug |-> <<>>, counter |-> 0, disturbed |-> FALSE]

InitForms ==
    /\ projectDocs = <<>>
    /\ form = [u \in Users |-> NoForm]

\* Another user's write reached the projects collection while this handler ran.
Disturb(f, u) ==
    [v \in Users |-> IF v # u /\ f[v].pc \in {"checking", "adding", "updating"}
                     THEN [f[v] EXCEPT !.disturbed = TRUE] ELSE f[v]]

\* NewProject handleSubmit up to the first await of getUniqueSlug.
NewProjectSubmit(u, name) ==
    /\ form[u].pc = "idle"
    /\ Len(projectDocs) + Cardinality({v \in Users : form[v].kind = "new"}) < MaxProjects
    /\ form' = [form EXCEPT ![u] =
                   [NoForm EXCEPT !.pc = "checking", !.kind = "new", !.name = name,
                                  !.baseSlug = generateSlug(name), !.slug = generateSlug(name),
                                  !.counter = 1]]
    /\ UNCHANGED <<projectDocs, clientVars, dispatcherVars, relayVars, anonVars, xfer, lastRequest>>

\* Faulty variant: the counter is incremented before it is used, so the first
\* suffix tried is -2.
SlugCheckSkipsOne(u) ==
    /\ form[u].pc = "checking"
    /\ IF isSlugAvailable(form[u].slug)
       THEN form' = [form EXCEPT ![u].pc = IF form[u].kind = "new" THEN "adding" ELSE "updating"]
       ELSE form' = [form EXCEPT ![u].slug = suffixed(form[u].baseSlug, form[u].counter + 1),
                                 ![u].counter = @ + 1]
    /\ UNCHANGED <<projectDocs, clientVars, dispatcherVars, relayVars, anonVars, xfer, lastRequest>>

\* getUniqueSlug: the awaited isSlugAvailable answers; the loop goes on to the
\* next candidate or returns the slug to handleSubmit, which goes on to its write.
SlugCheck(u) ==
    /\ form[u].pc = "checking"
    /\ IF isSlugAvailable(form[u].slug)
       THEN form' = [form EXCEPT ![u].pc = IF form[u].kind = "new" THEN "adding" ELSE "updating"]
       ELSE form' = [form EXCEPT ![u].slug = suffixed(form[u].baseSlug, form[u].counter),
                                 ![u].counter = @ + 1]
    /\ UNCHANGED <<projectDocs, clientVars, dispatcherVars, relayVars, anonVars, xfer, lastRequest>>

\* NewProject handleSubmit: addDoc(collection(db, 'projects'), {...}).
NewProjectAddDoc(u) ==
    /\ form[u].pc = "adding"
    /\ projectDocs' = Append(projectDocs,
                             [name |-> form[u].name, slug |-> form[u].slug, ownerId |-> u])
    /\ form' = Disturb([form EXCEPT ![u] = NoForm], u)
    /\ UNCHANGED <<clientVars, dispatcherVars, relayVars, anonVars, xfer, lastRequest>>

\* EditProject fetchProject: the form is filled from the stored project.
EditProjectOpen(u, pid) ==
    /\ form[u].pc = "idle"
    /\ pid \in 1..Len(projectDocs)
    /\ projectDocs[pid].ownerId = u
    /\ form' = [form EXCEPT ![u] =
                   [NoForm EXCEPT !.kind = "edit", !.target = pid, !.name = projectDocs[pid].name,
                                  !.originalSlug = projectDocs[pid].slug]]
    /\ UNCHANGED <<projectDocs, clientVars, dispatcherVars, relayVars, anonVars, xfer, lastRequest>>

\* EditProject handleSubmit with the name field as the user left it.
EditProjectSubmit(u, name) ==
    /\ form[u].pc = "idle"
    /\ form[u].kind = "edit"
    /\ IF generateSlug(name) # form[u].originalSlug
       THEN form' = [form EXCEPT ![u].pc = "checking", ![u].name = name,
                                 ![u].baseSlug = generateSlug(name),
                                 ![u].slug = generateSlug(name), ![u].counter = 1]
       ELSE form' = [form EXCEPT ![u].pc = "updating", ![u].name = name,
                                 ![u].slug = form[u].originalSlug]
    /\ UNCHANGED <<projectDocs, clientVars, dispatcherVars, relayVars, anonVars, xfer, lastRequest>>

\* EditProject handleSubmit: updateDoc(doc(db, 'projects', projectId), {...}).
EditProjectUpdate(u) ==
    /\ form[u].pc = "updating"
    /\ projectDocs' = [projectDocs EXCEPT ![form[u].target].name = form[u].name,
                                          ![form[u].target].slug = form[u].slug]
    /\ form' = Disturb([form EXCEPT ![u] = NoForm], u)
    /\ UNCHANGED <<clientVars, dispatcherVars, relayVars, anonVars, xfer, lastRequest>>

\* An awaited query or write of handleSubmit rejects: the catch shows the error.
SubmitFails(u) ==
    /\ form[u].pc \in {"checking", "adding", "updating"}
    /\ form' = [form EXCEPT ![u] = NoForm]
    /\ UNCHANGED <<projectDocs, clientVars, dispatcherVars, relayVars, anonVars, xfer, lastRequest>>

\* ---------------------------------------------- transferAnonymousUserData
NoTransfer ==
    [pc |-> "idle", userId |-> NULL, anonymousId |-> NULL, threadIds |-> {}, responseIds |-> {},
     before |-> [threads |-> {}, responses |-> {}], storageBefore |-> [id |-> NULL, name |-> NULL],
     success |-> FALSE, transferCount |-> 0, written |-> FALSE]

TransferDone(x, success, count, written) ==
    [x EXCEPT !.pc = "done", !.success = success, !.transferCount = count, !.written = written]

\* Faulty variant: the author is set but the anonymous id stays on the document.
TransferFieldsKeepsAnonymousId(doc, userId) == [doc EXCEPT !.authorId = userId]

\* batch.update(ref, {authorId: userId, anonymousId: null})
TransferFields(doc, userId) == [doc EXCEPT !.authorId = userId, !.anonymousId = NULL]

\* clearAnonymousUserData of userUtils: both items are removed from the storage.
clearAnonymousUserData(store) == [id |-> NULL, name |-> NULL]

\* The call up to `await getDocs(threadsQuery)`: getAnonymousUserId() returns
\* the stored id or mints and stores one (or throws, into the catch).
TransferStart(userId, rnd) ==
    /\ xfer.pc = "idle"
    /\ LET id == IF ~Falsy(localStorage.id) THEN localStorage.id ELSE rnd
           x == [NoTransfer EXCEPT
                    !.userId = userId,
                    !.storageBefore = localStorage,
                    !.before = [threads |-> {tid \in DOMAIN threads :
                                                threads[tid].anonymousId = id},
                                responses |-> {rid \in DOMAIN responses :
                                                  responses[rid].anonymousId = id}]]
       IN  IF ~Falsy(localStorage.id)
           THEN /\ xfer' = [x EXCEPT !.pc = "threads", !.anonymousId = id]
                /\ UNCHANGED localStorage
           ELSE IF storageFull
           THEN /\ xfer' = TransferDone(x, FALSE, 0, FALSE)
                /\ UNCHANGED localStorage
           ELSE /\ localStorage' = StoreId(localStorage, rnd)
                /\ xfer' = [x EXCEPT !.pc = "threads", !.anonymousId = id]
    /\ UNCHANGED <<storageFull, idCalls, nameCalls, clientVars, dispatcherVars, relayVars,
                   slugVars, lastRequest>>

\* getDocs(threadsQuery) answers (or rejects, into the catch); the responses
\* query is sent.
TransferThreadsSnapshot(ok) ==
    /\ xfer.pc = "threads"
    /\ xfer' = IF ok
               THEN [xfer EXCEPT !.pc = "responses",
                                 !.threadIds = {tid \in DOMAIN threads :
                                                   threads[tid].anonymousId = xfer.anonymousId}]
               ELSE TransferDone(xfer, FALSE, 0, FALSE)
    /\ UNCHANGED <<anonVars, clientVars, dispatcherVars, relayVars, slugVars, lastRequest>>

\* getDocs(responsesQuery) answers; with nothing found the call returns, else
\* the batch is sent.
TransferResponsesSnapshot(ok) ==
    /\ xfer.pc = "responses"
    /\ LET found == {rid \in DOMAIN responses : responses[rid].anonymousId = xfer.anonymousId}
           count == Cardinality(xfer.threadIds) + Cardinality(found)
       IN  xfer' = IF ~ok THEN TransferDone(xfer, FALSE, 0, FALSE)
                   ELSE IF count = 0 THEN TransferDone(xfer, TRUE, 0, FALSE)
                   ELSE [xfer EXCEPT !.pc = "commit", !.responseIds = found, !.transferCount = count]
    /\ UNCHANGED <<anonVars, clientVars, dispatcherVars, relayVars, slugVars, lastRequest>>

\* batch.commit(): all the updates are applied, or none (a document of the
\* batch is gone, or the commit is rejected); after a commit the storage is cleared.
TransferCommit(ok) ==
    /\ xfer.pc = "commit"
    /\ IF /\ ok
          /\ xfer.threadIds \subseteq DOMAIN threads
          /\ xfer.responseIds \subseteq DOMAIN responses
          /\ ThreadUpdateAllowed(xfer.userId)
          /\ ResponseUpdateAllowed(xfer.userId)
       THEN /\ threads' = [tid \in DOMAIN threads |->
                              IF tid \in xfer.threadIds
                              THEN TransferFields(threads[tid], xfer.userId) ELSE threads[tid]]
            /\ responses' = [rid \in DOMAIN responses |->
                                IF rid \in xfer.responseIds
                                THEN TransferFields(responses[rid], xfer.userId)
                                ELSE responses[rid]]
            /\ localStorage' = clearAnonymousUserData(localStorage)
            /\ xfer' = TransferDone(xfer, TRUE, xfer.transferCount, TRUE)
       ELSE /\ xfer' = TransferDone(xfer, FALSE, xfer.transferCount, FALSE)
            /\ UNCHANGED <<threads, responses, localStorage>>
    /\ UNCHANGED <<project, threadSeq, responseSeq, currentUser, thread, pc, showCloseModal,
                   showDeleteConfirm, pendingDeletes, failures, statusWriters, scenario, tabs,
                   deletedStatus, formError, lastResponse, users, now, notifications, docRef,
                   lastCall, storageFull, idCalls, nameCalls, dispatcherVars, relayVars, slugVars,
                   lastRequest>>

\* The parts of the state a specification of another part leaves at rest.
InitIdle ==
    /\ localStorage = [id |-> NULL, name |-> NULL]
    /\ storageFull = FALSE
    /\ idCalls = <<>>
    /\ nameCalls = <<>>
    /\ InitForms
    /\ xfer = NoTransfer
    /\ lastRequest = NoStoreRequest

\* ------------------------------------------------------- specification
Step(t) ==
    \/ \E tid \in ThreadIds : OpenThread(t, tid)
    \/ BackToProject(t)
    \/ NewThreadAddDoc(t)
    \/ NewThreadIncrement(t)
    \/ SubmitResponseAddDoc(t)
    \/ SubmitResponseIncrement(t)
    \/ OpenCloseModal(t)
    \/ CancelCloseModal(t)
    \/ \E reason \in ClosingReasons, note \in ClosingNotes : CloseThreadUpdate(t, reason, note)
    \/ CloseThreadIncrement(t)
    \/ ReopenUpdate(t)
    \/ ReopenDecrement(t)
    \/ OpenDeleteConfirm(t)
    \/ CancelDeleteConfirm(t)
    \/ DeleteThreadQuery(t)
    \/ \E rid \in ResponseIds : DeleteResponse(t, rid)
    \/ DeleteThreadDoc(t)
    \/ DeleteThreadCounters(t)

Init == InitLifecycle /\ InitNoUsers /\ tabs \in TabSets /\ InitDispatcher /\ InitRelay /\ InitIdle

Next == \E t \in tabs : Step(t)

\* The web client: the handlers of the open tabs, interleaved.
Spec == Init /\ [][Next]_vars

InitDispatch == InitLifecycle /\ InitNoUsers /\ tabs = {} /\ InitDispatcher /\ InitRelay /\ InitIdle

NextDispatch ==
    \/ \E key \in BOOLEAN, data \in Bodies : HandleRequest(key, data)
    \/ \E i \in 1..MaxRecipients, ok \in BOOLEAN : SendSettles(i, ok)
    \/ Respond
    \/ NextRequest

\* The email notification worker, one request after the other.
SpecDispatch == InitDispatch /\ [][NextDispatch]_vars

\* ------------------------------------------------ requests to the store
\* The identities a request to the store can carry (request.auth.uid, or none).
Identities == {Owner, OtherUser, NULL}

\* A thread update sent to the store by any holder of the public web
\* configuration: the rules of match /threads/{threadId} decide.
ThreadUpdateRequest(auth, tid, reason) ==
    /\ tid \in DOMAIN threads
    /\ ThreadUpdateAllowed(auth)
    /\ threads' = [threads EXCEPT ![tid] =
                      IF reason = NULL THEN ReopenFields(@)
                      ELSE [@ EXCEPT !.status = "closed", !.closingReason = reason]]
    /\ threads'[tid] # threads[tid]
    /\ statusWriters' = statusWriters \cup {auth}
    /\ scenario' = NoScenario
    /\ UNCHANGED <<project, responses, threadSeq, responseSeq, thread, pc, showCloseModal,
                   showDeleteConfirm, pendingDeletes, failures, deletedStatus, formError,
                   lastResponse, notifications, now,
                   docRef, outside>>

InitAccess == InitLifecycle /\ InitNoUsers /\ tabs = {"tabA"} /\ InitDispatcher /\ InitRelay /\ InitIdle

NextAccess ==
    \/ \E t \in tabs : Step(t)
    \/ \E auth \in Identities, tid \in ThreadIds, reason \in ClosingReasons \cup {NULL} :
           ThreadUpdateRequest(auth, tid, reason)

\* The store with its rules, one owner tab, and requests from any identity.
SpecAccess == InitAccess /\ [][NextAccess]_vars

InitRelaySpec == InitLifecycle /\ InitNoUsers /\ tabs = {} /\ InitDispatcher /\ InitRelay /\ InitIdle

NextRelay ==
    \/ \E file \in Uploads : ImageUpload(file)
    \/ \E ok \in BOOLEAN : ImageUploadPut(ok)
    \/ RelayNext

\* The image relay, one upload after the other.
SpecRelay == InitRelaySpec /\ [][NextRelay]_vars

InitAnonSpec ==
    /\ InitLifecycle /\ InitNoUsers /\ tabs = {} /\ InitDispatcher /\ InitRelay
    /\ InitAnon /\ InitForms /\ xfer = NoTransfer
    /\ lastRequest = NoStoreRequest

NextAnon ==
    \/ \E rnd \in RandomIds : getAnonymousUserId(rnd)
    \/ \E rnd \in RandomNames : getAnonymousUserName(rnd)

\* One browser storage context and the calls of the two getters in it.
SpecAnon == InitAnonSpec /\ [][NextAnon]_vars

InitSlug == InitLifecycle /\ InitNoUsers /\ tabs = {} /\ InitDispatcher /\ InitRelay /\ InitIdle

NextSlug ==
    \/ \E u \in Users, name \in ProjectNames : NewProjectSubmit(u, name)
    \/ \E u \in Users : SlugCheck(u)
    \/ \E u \in Users : NewProjectAddDoc(u)
    \/ \E u \in Users, pid \in 1..MaxProjects : EditProjectOpen(u, pid)
    \/ \E u \in Users, name \in ProjectNames : EditProjectSubmit(u, name)
    \/ \E u \in Users : EditProjectUpdate(u)
    \/ \E u \in Users : SubmitFails(u)

\* The project forms of two signed-in users over one projects collection.
SpecSlug == InitSlug /\ [][NextSlug]_vars

\* The browser that registers holds the id of the visitor tab, another id, or
\* none yet.
InitTransfer ==
    /\ InitLifecycle /\ InitNoUsers /\ tabs = {"tabA", "tabC"} /\ InitDispatcher /\ InitRelay /\ InitForms
    /\ localStorage \in {[id |-> AnonymousId, name |-> "BraveFox42"],
                         [id |-> "99999999", name |-> "CalmOtter999"],
                         [id |-> NULL, name |-> NULL]}
    /\ storageFull = FALSE
    /\ idCalls = <<>>
    /\ nameCalls = <<>>
    /\ xfer = NoTransfer
    /\ lastRequest = NoStoreRequest

\* The visitor tab posts under AnonymousId as long as its browser holds that
\* id: once the transfer has cleared it, a page of that browser mints another.
VisitorHoldsId == ~(xfer.anonymousId = AnonymousId /\ xfer.written)

NextTransfer ==
    \/ \E t \in tabs, tid \in ThreadIds : OpenThread(t, tid)
    \/ VisitorHoldsId /\ NewThreadAddDoc("tabC")
    \/ NewThreadIncrement("tabC")
    \/ \E t \in tabs : (currentUser[t] = NULL => VisitorHoldsId) /\ SubmitResponseAddDoc(t)
    \/ \E t \in tabs : SubmitResponseIncrement(t)
    \/ OpenDeleteConfirm("tabA")
    \/ DeleteThreadQuery("tabA")
    \/ \E rid \in ResponseIds : DeleteResponse("tabA", rid)
    \/ DeleteThreadDoc("tabA")
    \/ DeleteThreadCounters("tabA")
    \/ \E rnd \in RandomIds : TransferStart(OtherUser, rnd)
    \/ \E ok \in BOOLEAN : TransferThreadsSnapshot(ok)
    \/ \E ok \in BOOLEAN : TransferResponsesSnapshot(ok)
    \/ \E ok \in BOOLEAN : TransferCommit(ok)

\* A visitor who posts without an account and then registers, next to the
\* project owner's tab.
SpecTransfer == InitTransfer /\ [][NextTransfer]_vars

\* request.resource.data.diff(resource.data).affectedKeys(): the keys added,
\* removed or changed.
affectedKeys(new, old) ==
    {k \in DOMAIN new \cup DOMAIN old :
        k \notin DOMAIN new \/ k \notin DOMAIN old \/ new[k] # old[k]}

\* The documents an update of the project can ask for: any of its fields
\* changed (a counter moved by one, cyclically), a field added.
ProjectUpdates(old) ==
    LET changed == {[old EXCEPT !.ownerId = o, !.totalIssues = n, !.closedIssues = c] :
                        o \in {Owner, OtherUser},
                        n \in {old.totalIssues, (old.totalIssues + 1) % (CounterBound + 1)},
                        c \in {old.closedIssues, (old.closedIssues + 1) % (CounterBound + 1)}}
    IN  changed \cup {[k \in DOMAIN d \cup {"name"} |-> IF k = "name" THEN "renamed" ELSE d[k]] :
                          d \in {d2 \in changed : d2.ownerId = old.ownerId}}

\* An update of the project document, sent by any holder of the public web
\* configuration: the rules of match /projects/{projectId} decide.
ProjectUpdateRequest(auth, new) ==
    /\ new \in ProjectUpdates(project)
    /\ LET ok == ProjectUpdateAllowed(auth, affectedKeys(new, project))
       IN  /\ project' = IF ok THEN new ELSE project
           /\ lastRequest' = [op |-> "updateProject", auth |-> auth, target |-> 0, accepted |-> ok]
    /\ UNCHANGED <<threads, responses, threadSeq, responseSeq, currentUser, thread, pc,
                   showCloseModal, showDeleteConfirm, pendingDeletes, failures, statusWriters,
                   scenario, tabs, deletedStatus, formError, lastResponse, users, now,
                   notifications, docRef, lastCall, dispatcherVars, relayVars, anonVars, slugVars,
                   xfer>>

\* A thread created by a client of identity `auth`.
ThreadCreateRequest(auth) ==
    /\ threadSeq < MaxThreads
    /\ ThreadCreateAllowed(auth)
    /\ threadSeq' = threadSeq + 1
    /\ threads' = (threadSeq + 1 :> [projectId |-> ProjectId, status |-> "open",
                                     closingReason |-> NULL, closingNote |-> NULL,
                                     closedBy |-> NULL, closedAt |-> NULL, authorId |-> auth,
                                     anonymousId |-> IF auth = NULL THEN AnonymousId ELSE NULL,
                                     responseCount |-> 0, createdAt |-> now]) @@ threads
    /\ lastRequest' = [op |-> "createThread", auth |-> auth, target |-> threadSeq + 1,
                       accepted |-> TRUE]
    /\ now' = now + 1
    /\ UNCHANGED <<project, responses, responseSeq, currentUser, thread, pc, showCloseModal,
                   showDeleteConfirm, pendingDeletes, failures, statusWriters, scenario, tabs,
                   deletedStatus, formError, lastResponse, users, notifications, docRef, lastCall,
                   dispatcherVars, relayVars, anonVars, slugVars, xfer>>

\* A response created by a client of identity `auth`.
ResponseCreateRequest(auth, tid) ==
    /\ tid \in 1..threadSeq
    /\ ResponseCreateAllowed(auth)
    /\ responseSeq' = responseSeq + 1
    /\ responses' = (responseSeq + 1 :> [threadId |-> tid, authorId |-> auth,
                                         anonymousId |-> IF auth = NULL THEN AnonymousId ELSE NULL,
                                         isFounder |-> (auth # NULL /\ auth = project.ownerId),
                                         createdAt |-> now])
                        @@ responses
    /\ lastRequest' = [op |-> "createResponse", auth |-> auth, target |-> responseSeq + 1,
                       accepted |-> TRUE]
    /\ now' = now + 1
    /\ UNCHANGED <<project, threads, threadSeq, currentUser, thread, pc, showCloseModal,
                   showDeleteConfirm, pendingDeletes, failures, statusWriters, scenario, tabs,
                   deletedStatus, formError, lastResponse, users, notifications, docRef, lastCall,
                   dispatcherVars, relayVars, anonVars, slugVars, xfer>>

\* A delete of a thread document: the rules of match /threads/{threadId} decide.
ThreadDeleteRequest(auth, tid) ==
    /\ tid \in DOMAIN threads
    /\ LET ok == ThreadDeleteAllowed(auth, tid)
       IN  /\ threads' = IF ok THEN Without(threads, tid) ELSE threads
           /\ lastRequest' = [op |-> "deleteThread", auth |-> auth, target |-> tid, accepted |-> ok]
    /\ UNCHANGED <<project, responses, threadSeq, responseSeq, currentUser, thread, pc,
                   showCloseModal, showDeleteConfirm, pendingDeletes, failures, statusWriters,
                   scenario, tabs, deletedStatus, formError, lastResponse, users, now,
                   notifications, docRef, lastCall, dispatcherVars, relayVars, anonVars, slugVars,
                   xfer>>

\* A delete of a response document: the rules of match /responses/{responseId} decide.
ResponseDeleteRequest(auth, rid) ==
    /\ rid \in DOMAIN responses
    /\ LET ok == ResponseDeleteAllowed(auth, rid)
       IN  /\ responses' = IF ok THEN Without(responses, rid) ELSE responses
           /\ lastRequest' = [op |-> "deleteResponse", auth |-> auth, target |-> rid,
                              accepted |-> ok]
    /\ UNCHANGED <<project, threads, threadSeq, responseSeq, currentUser, thread, pc,
                   showCloseModal, showDeleteConfirm, pendingDeletes, failures, statusWriters,
                   scenario, tabs, deletedStatus, formError, lastResponse, users, now,
                   notifications, docRef, lastCall, dispatcherVars, relayVars, anonVars, slugVars,
                   xfer>>

InitPolicy == InitLifecycle /\ InitNoUsers /\ tabs = {} /\ InitDispatcher /\ InitRelay /\ InitIdle

NextPolicy ==
    \/ \E auth \in Identities, new \in ProjectUpdates(project) : ProjectUpdateRequest(auth, new)
    \/ \E auth \in Identities : ThreadCreateRequest(auth)
    \/ /\ responseSeq < MaxResponses
       /\ \E auth \in Identities, tid \in ThreadIds : ResponseCreateRequest(auth, tid)
    \/ \E auth \in Identities, tid \in ThreadIds : ThreadDeleteRequest(auth, tid)
    \/ \E auth \in Identities, rid \in ResponseIds : ResponseDeleteRequest(auth, rid)

\* The store under its rules, with requests from every identity.
SpecPolicy == InitPolicy /\ [][NextPolicy]_vars

\* ------------------------------------------- getThreadParticipants
MaxPosts == 6

\* The identities that answer in a thread: registered users with an email,
\* user7 without one, and visitors.
PostAuthors == {"user3", "user4", "user5", "user6", "user7", NULL}

ThreadAuthors == {Owner, OtherUser, NULL}

\* The current user of the page that asks for the participants.
Callers == {Owner, "user3", NULL}

\* A page calls getThreadParticipants(threadId, currentUserId).
GetThreadParticipants(threadId, currentUserId) ==
    /\ lastCall = NoCall
    /\ lastCall' = [threadId |-> threadId, currentUserId |-> currentUserId,
                    recipients |-> getThreadParticipants(threadId, currentUserId)]
    /\ UNCHANGED <<project, threads, responses, threadSeq, responseSeq, currentUser, thread,
                   pc, showCloseModal, showDeleteConfirm, pendingDeletes, failures,
                   statusWriters, scenario, tabs, deletedStatus, formError, lastResponse,
                   users, now, notifications, docRef, dispatcherVars, relayVars, anonVars,
                   slugVars, xfer, lastRequest>>

InitParticipants ==
    /\ InitLifecycle /\ users = RegisteredUsers /\ now = 0
    /\ tabs = {} /\ InitDispatcher /\ InitRelay /\ InitIdle

NextParticipants ==
    \/ /\ lastCall = NoCall
       /\ \E auth \in ThreadAuthors : ThreadCreateRequest(auth)
    \/ /\ lastCall = NoCall
       /\ responseSeq < MaxPosts
       /\ \E auth \in PostAuthors, tid \in ThreadIds : ResponseCreateRequest(auth, tid)
    \/ \E tid \in ThreadIds, uid \in Callers : GetThreadParticipants(tid, uid)

\* A thread that gathers responses, and one call of getThreadParticipants.
SpecParticipants == InitParticipants /\ [][NextParticipants]_vars

\* ------------------------------------------------ notification sends
MaxHours == 1

\* An hour passes.  The awaits of a running handler take less than that.
Tick ==
    /\ now < MaxHours * oneHourInMs
    /\ \A t \in tabs : pc[t] = "idle"
    /\ now' = now + oneHourInMs
    /\ UNCHANGED <<project, threads, responses, threadSeq, responseSeq, currentUser, thread,
                   pc, showCloseModal, showDeleteConfirm, pendingDeletes, failures,
                   statusWriters, scenario, tabs, deletedStatus, formError, lastResponse,
                   users, notifications, docRef, lastCall, dispatcherVars, relayVars,
                   anonVars, slugVars, xfer, lastRequest>>

\* What becomes of the fetch of a sendNewIssueNotification: the worker answers
\* ok ("sent"), answers with an error status ("rejected"), or the fetch throws
\* ("failed"); a fetch that never completes leaves the call pending.
SendOutcomes == {"sent", "rejected", "failed"}

\* Faulty variant: a send that did not succeed shows an error on the pages.
NotificationSettlesShowsError(i, outcome) ==
    /\ i \in DOMAIN notifications
    /\ notifications[i].status = "pending"
    /\ notifications' = [notifications EXCEPT ![i].status = outcome]
    /\ formError' = IF outcome = "sent" THEN formError
                    ELSE [t \in Tabs |-> "Failed to send notification"]
    /\ UNCHANGED <<project, threads, responses, threadSeq, responseSeq, currentUser, thread,
                   pc, showCloseModal, showDeleteConfirm, pendingDeletes, failures,
                   statusWriters, scenario, tabs, deletedStatus, lastResponse,
                   users, now, docRef, lastCall, dispatcherVars, relayVars, anonVars,
                   slugVars, xfer, lastRequest>>

\* sendNewIssueNotification returns {success, ...} in every case, and the
\* handlers neither await it nor read what it returns.
NotificationSettles(i, outcome) ==
    /\ i \in DOMAIN notifications
    /\ notifications[i].status = "pending"
    /\ notifications' = [notifications EXCEPT ![i].status = outcome]
    /\ UNCHANGED <<project, threads, responses, threadSeq, responseSeq, currentUser, thread,
                   pc, showCloseModal, showDeleteConfirm, pendingDeletes, failures,
                   statusWriters, scenario, tabs, deletedStatus, formError, lastResponse,
                   users, now, docRef, lastCall, dispatcherVars, relayVars, anonVars,
                   slugVars, xfer, lastRequest>>

InitNotify ==
    /\ InitLifecycle /\ users = RegisteredUsers /\ now = 0
    /\ tabs \in TabSets /\ InitDispatcher /\ InitRelay /\ InitIdle

NextNotify ==
    \/ ThreadCreateRequest(OtherUser)
    \/ \E t \in tabs, tid \in ThreadIds : OpenThread(t, tid)
    \/ \E t \in tabs : BackToProject(t)
    \/ \E t \in tabs : NewThreadAddDoc(t)
    \/ \E t \in tabs : NewThreadIncrement(t)
    \/ \E t \in tabs : SubmitResponseAddDoc(t)
    \/ \E t \in tabs : SubmitResponseIncrement(t)
    \/ Tick
    \/ \E i \in 1..(MaxThreads + MaxResponses), outcome \in SendOutcomes :
          NotificationSettles(i, outcome)

\* The pages of a project whose users have emails: threads and responses are
\* posted, notifications are sent, and time passes.
SpecNotify == InitNotify /\ [][NextNotify]_vars

\* ================================================================ claims

ResponseInProgress(tid) ==
    \E t \in tabs : pc[t] = "sr_inc" /\ thread[t].id = tid

DeleteInProgress(tid) ==
    \E t \in tabs : \/ pc[t] \in {"dl_resps", "dl_thread", "dl_counters"} /\ thread[t].id = tid
                   \/ pendingDeletes[t] # {}

\* C1: a thread that was created and then given N responses, every write of
\* which succeeded, has responseCount = N right after the Nth response: with no
\* failed write and no response or delete under way on the thread,
\* responseCount is the number of the thread's Response documents, each of
\* which one createResponse has written.
C1_ResponseCountIsN ==
    \A tid \in DOMAIN threads :
        (failures = 0 /\ ~ResponseInProgress(tid) /\ ~DeleteInProgress(tid))
            => threads[tid].responseCount = Cardinality(ResponsesOf(tid))

C1_Witness ==
    /\ failures = 0
    /\ \E tid \in DOMAIN threads :
          /\ threads[tid].responseCount = 2
          /\ Cardinality(ResponsesOf(tid)) = 2
          /\ ~ResponseInProgress(tid)
          /\ ~DeleteInProgress(tid)

\* C2: when handleDeleteThread has made its last write (the counters update)
\* with success, no Response document of the deleted thread is left.
C2_NoResponseAfterDelete ==
    [][\A t \in Tabs :
          (pc[t] = "dl_counters" /\ pc'[t] = "idle" /\ project' # project)
              => {rid \in DOMAIN responses' : responses'[rid].threadId = thread[t].id} = {}]_vars

\* C3: a close with a reason that ran undisturbed on an open thread leaves
\* closedIssues one above its value before the close and the reason on the
\* thread; the reopen that follows it takes closedIssues back to that value and
\* clears the reason.
C3_CloseThenReopen ==
    /\ scenario.stage = "closed" =>
          /\ project.closedIssues = scenario.base + 1
          /\ scenario.thread \in DOMAIN threads
          /\ threads[scenario.thread].status = "closed"
          /\ threads[scenario.thread].closingReason = scenario.reason
    /\ scenario.stage = "reopened" =>
          /\ project.closedIssues = scenario.base
          /\ scenario.thread \in DOMAIN threads
          /\ threads[scenario.thread].closingReason = NULL

C3_Witness ==
    /\ scenario.stage = "reopened"
    /\ scenario.reason = "solved"
    /\ project.closedIssues = scenario.base
    /\ threads[scenario.thread].closingReason = NULL

StatusOpInProgress ==
    \E t \in tabs : \/ pc[t] \in {"cl_inc", "ro_dec", "dl_resps", "dl_thread", "dl_counters"}
                   \/ pendingDeletes[t] # {}

\* C4: with no close, reopen or delete under way, closedIssues is the number of
\* closed threads.  (Stated here for the runs without any failed write, which is
\* less than the claim says.)
C4_ClosedIssuesMatch ==
    (~StatusOpInProgress /\ failures = 0)
        => project.closedIssues = Cardinality(ClosedThreads)

CreateOrDeleteInProgress ==
    \E t \in tabs : \/ pc[t] \in {"nt_inc", "dl_resps", "dl_thread", "dl_counters"}
                   \/ pendingDeletes[t] # {}

\* C5: with no createThread or deleteThread under way and no failed write,
\* totalIssues is the number of Thread documents of the project.
C5_TotalIssuesMatch ==
    (~CreateOrDeleteInProgress /\ failures = 0)
        => project.totalIssues = Cardinality({tid \in DOMAIN threads :
                                                  threads[tid].projectId = ProjectId})

C5_Witness ==
    /\ ~CreateOrDeleteInProgress
    /\ failures = 0
    /\ threadSeq = 1
    /\ threads = <<>>
    /\ project.totalIssues = 0

\* C6: every accepted write that changed a thread's status or closing fields
\* came from the owner of the project.
C6_OnlyOwnerWritesStatus == statusWriters \subseteq {project.ownerId}

\* ------------------------------------------------------ worker claims
\* A body the worker's interface accepts: a known type, every base field, a
\* non-empty array of recipients with an email each, and the fields of its type.
ValidPayload(data) ==
    /\ data.body = "object"
    /\ data.type \in {"new_issue", "new_response"}
    /\ BaseFields \subseteq data.fields
    /\ data.recipients.kind = "array"
    /\ Len(data.recipients.items) > 0
    /\ \A i \in 1..Len(data.recipients.items) : data.recipients.items[i].email # NULL
    /\ data.type = "new_issue" => data.issueContent
    /\ data.type = "new_response" => (data.responseContent /\ data.responseAuthor)

OnePerRecipient ==
    /\ Len(outbox) = Len(request.recipients.items)
    /\ \A i \in 1..Len(outbox) :
          /\ Len(outbox[i].to) >= 1
          /\ outbox[i].to[1].email = request.recipients.items[i].email

ReportedCountIsRight ==
    reply.successCount = Len(results) - Len(errors)

\* C7 as claimed: every valid payload with N recipients gets N sends, one per
\* recipient, and the reported success count is the number of sends that did
\* not throw.
C7_NSendsForValidPayload ==
    (dpc \in {"sending", "responded"} /\ ValidPayload(request))
        => /\ OnePerRecipient
           /\ dpc = "responded" => ReportedCountIsRight

\* C7 amended: the same, for a worker whose API credential is configured.
C7_NSendsWhenConfigured ==
    (dpc \in {"sending", "responded"} /\ ValidPayload(request) /\ apiKey)
        => /\ OnePerRecipient
           /\ dpc = "responded" => ReportedCountIsRight

C7_Witness ==
    /\ dpc = "responded"
    /\ ValidPayload(request)
    /\ apiKey
    /\ Len(outbox) = 2
    /\ results = <<"failed", "ok">>
    /\ reply.successCount = 1

MissingRequired(data) ==
    \/ data.type = NULL
    \/ data.recipients.kind = "absent"
    \/ data.type = "new_issue" /\ ~data.issueContent
    \/ data.type = "new_response" /\ (~data.responseContent \/ ~data.responseAuthor)

Succeeded == {i \in 1..Len(results) : results[i] = "ok"}

\* C9: a valid request is answered 200 when every send succeeded, 207 when
\* some but not all did, 500 when all failed or the credential is missing; with
\* one send or more succeeded it is never answered 500 or success = false.
C9_StatusByOutcome ==
    (dpc = "responded" /\ ValidPayload(request)) =>
        /\ ~apiKey => (reply.status = 500 /\ ~reply.success)
        /\ apiKey =>
            /\ Cardinality(Succeeded) = Len(results) => (reply.status = 200 /\ reply.success)
            /\ (Succeeded # {} /\ Cardinality(Succeeded) < Len(results))
                   => (reply.status = 207 /\ reply.success)
            /\ Succeeded = {} => (reply.status = 500 /\ ~reply.success)

C9_Witness ==
    /\ dpc = "responded"
    /\ ValidPayload(request)
    /\ apiKey
    /\ Succeeded # {}
    /\ Cardinality(Succeeded) < Len(results)
    /\ reply.status = 207

Addresses(msg) ==
    {msg.to[j].email : j \in 1..Len(msg.to)} \cup {msg.bcc[j].email : j \in 1..Len(msg.bcc)}

\* C10: every message handed to the provider has one `to` entry and no bcc
\* (a message has no cc field), so it carries the address of its own recipient
\* and of no other recipient of the request.
C10_OneAddresseePerMessage ==
    \A i \in 1..Len(outbox) :
        /\ Len(outbox[i].to) = 1
        /\ Len(outbox[i].bcc) = 0
        /\ Addresses(outbox[i]) = {request.recipients.items[i].email}

C10_Witness ==
    /\ Len(outbox) = 2
    /\ request.recipients.items[1].email # request.recipients.items[2].email
    /\ Addresses(outbox[1]) = {request.recipients.items[1].email}
    /\ Addresses(outbox[2]) = {request.recipients.items[2].email}

\* C11: the body documented in the README and sent by test-simple.js is
\* accepted by a configured worker: it is not turned away by the validation,
\* and with no failed send it is answered success: true.
C11_LegacyBodyAccepted ==
    (dpc = "responded" /\ request = LegacyBody /\ apiKey)
        => /\ reply.status # 400
           /\ (\A i \in 1..Len(results) : results[i] = "ok") => reply.success

\* -------------------------------------------------------- relay claims
\* C12: an upload whose file has a content type that does not start with
\* `image/` is answered 400 by the step that receives it, that step and every
\* later one leave the object store as it was, and whatever is stored came
\* from a file whose type starts with `image/`.
C12_NonImageRejected ==
    [][/\ (rpc = "idle" /\ rpc' # "idle" /\ upload'.kind = "file"
              /\ ~startsWith(upload'.type, ImagePrefix))
          => (rpc' = "responded" /\ relayReply'.status = 400 /\ bucket' = bucket)
       /\ bucket' # bucket
          => (upload.kind = "file" /\ startsWith(upload.type, ImagePrefix)
              /\ bucket' = Append(bucket, bucket'[Len(bucket')])
              /\ startsWith(bucket'[Len(bucket')].contentType, ImagePrefix))]_vars

C12_Witness ==
    /\ rpc = "responded"
    /\ upload.kind = "file"
    /\ upload.type = <<"i", "m", "a", "g", "e", "s", "/", "x">>
    /\ relayReply.status = 400
    /\ Len(bucket) = 1

\* ------------------------------------------- anonymous identity claims
Returned(calls) == {i \in 1..Len(calls) : calls[i] # "threw"}

\* C13: in one storage context any two calls of getAnonymousUserId that
\* return a value return the same value, and so do any two calls of
\* getAnonymousUserName, whatever the storage held before the first call; a
\* first call that returned is never followed by one that throws or differs.
C13_GettersIdempotent ==
    /\ \A i, j \in Returned(idCalls) : idCalls[i] = idCalls[j]
    /\ \A i, j \in Returned(nameCalls) : nameCalls[i] = nameCalls[j]
    /\ \A i \in Returned(idCalls) : idCalls[i] = localStorage.id /\ ~Falsy(idCalls[i])
    /\ \A i \in Returned(nameCalls) : nameCalls[i] = localStorage.name /\ ~Falsy(nameCalls[i])
    /\ \A i \in 1..Len(idCalls) : (i > 1 /\ idCalls[i - 1] # "threw") => idCalls[i] # "threw"

C13_Witness ==
    /\ Len(idCalls) = 2
    /\ Len(nameCalls) = 2
    /\ idCalls[1] \in RandomIds
    /\ idCalls[2] = idCalls[1]
    /\ nameCalls[1] \in RandomNames
    /\ nameCalls[2] = nameCalls[1]

\* ------------------------------------------------------------ slug claims
SlugsOf(docs) == {docs[i].slug : i \in 1..Len(docs)}

\* The slug the rule of the claim asks for: the base slug if no project has it,
\* otherwise the base slug with the least suffix -1, -2, ... no project has.
ExpectedSlug(base, taken) ==
    IF base \notin taken THEN base
    ELSE suffixed(base, CHOOSE k \in 1..(Cardinality(taken) + 1) :
                            /\ suffixed(base, k) \notin taken
                            /\ \A j \in 1..(k - 1) : suffixed(base, j) \in taken)

\* C14: a project created while no other user's write reached the projects
\* collection gets the slug of its name if that is free and otherwise that slug
\* with the smallest free suffix; "Acme" gets acme, a second "Acme" acme-1.
C14_SlugIsBaseOrSmallestSuffix ==
    [][\A u \in Users :
          (/\ form[u].pc = "adding" /\ ~form[u].disturbed
           /\ form'[u].pc = "idle" /\ Len(projectDocs') = Len(projectDocs) + 1)
              => LET new == projectDocs'[Len(projectDocs')]
                 IN  /\ new.slug = ExpectedSlug(generateSlug(new.name), SlugsOf(projectDocs))
                     /\ (new.name = Acme /\ projectDocs = <<>>) => new.slug = <<"a", "c", "m", "e">>
                     /\ (new.name = Acme /\ SlugsOf(projectDocs) = {<<"a", "c", "m", "e">>})
                            => new.slug = <<"a", "c", "m", "e", "-", "1">>]_vars

C14_Witness ==
    /\ Len(projectDocs) = 2
    /\ projectDocs[1].name = Acme
    /\ projectDocs[2].name = Acme
    /\ projectDocs[1].slug = <<"a", "c", "m", "e">>
    /\ projectDocs[2].slug = <<"a", "c", "m", "e", "-", "1">>

\* C15: no two Project documents have the same slug.
C15_SlugsUnique ==
    \A i, j \in 1..Len(projectDocs) : projectDocs[i].slug = projectDocs[j].slug => i = j

\* -------------------------------------------------------- transfer claims
Transferred(doc) == doc.authorId = xfer.userId /\ doc.anonymousId = NULL

\* C16: once transferAnonymousUserData has returned success, every Thread and
\* Response that carried the visitor's stored anonymous id when the visitor
\* registered (and is still stored) has the new user as authorId and no
\* anonymousId.
C16_TransferReassigns ==
    (xfer.pc = "done" /\ xfer.success /\ ~Falsy(xfer.storageBefore.id)) =>
        /\ \A tid \in xfer.before.threads \cap DOMAIN threads : Transferred(threads[tid])
        /\ \A rid \in xfer.before.responses \cap DOMAIN responses : Transferred(responses[rid])

C16_Witness ==
    /\ xfer.pc = "done"
    /\ xfer.success
    /\ xfer.storageBefore.id = AnonymousId
    /\ xfer.before.threads = {1}
    /\ Cardinality(xfer.before.responses) = 1
    /\ 1 \in DOMAIN threads
    /\ threads[1].authorId = OtherUser
    /\ threads[1].anonymousId = NULL
    /\ \A rid \in xfer.before.responses : rid \in DOMAIN responses /\ Transferred(responses[rid])
    /\ \E rid \in DOMAIN responses : responses[rid].authorId = Owner

\* ---------------------------------------------------------- policy claims
\* C17: an update of the project that the rules accept from an identity other
\* than the project's owner changes no field but totalIssues and closedIssues;
\* an update they reject changes nothing.
C17_ProjectUpdateCarveOut ==
    [][lastRequest'.op = "updateProject" =>
          /\ ~lastRequest'.accepted => project' = project
          /\ (lastRequest'.accepted /\ lastRequest'.auth # project.ownerId)
                 => \A k \in DOMAIN project' \cup DOMAIN project :
                        k \notin {"totalIssues", "closedIssues"}
                            => (k \in DOMAIN project' /\ k \in DOMAIN project
                                /\ project'[k] = project[k])]_vars

C17_Witness ==
    /\ lastRequest.op = "updateProject"
    /\ lastRequest.accepted
    /\ lastRequest.auth = NULL
    /\ project.ownerId = Owner
    /\ project.totalIssues = 1
    /\ project.closedIssues = 2
    /\ "name" \notin DOMAIN project

C19_AuthorXorAnonymous ==
    /\ \A tid \in DOMAIN threads :
          (threads[tid].authorId = NULL) # (threads[tid].anonymousId = NULL)
    /\ \A rid \in DOMAIN responses :
          (responses[rid].authorId = NULL) # (responses[rid].anonymousId = NULL)

C19_Witness ==
    /\ xfer.pc = "done"
    /\ xfer.written
    /\ \E rid \in DOMAIN responses :
          responses[rid].authorId = OtherUser /\ responses[rid].anonymousId = NULL
    /\ \E rid \in DOMAIN responses :
          responses[rid].authorId = Owner /\ responses[rid].anonymousId = NULL
    /\ \E tid \in DOMAIN threads :
          threads[tid].authorId = NULL /\ threads[tid].anonymousId = AnonymousId

\* ------------------------------------------------------- reopen claims
Reopened(tid) ==
    /\ tid \in DOMAIN threads /\ tid \in DOMAIN threads'
    /\ threads[tid].status = "closed"
    /\ threads'[tid].status = "open"

\* C20 as claimed: the write that reopens a closed thread leaves closingReason,
\* closingNote, closedBy and closedAt all null on it.
C20_ReopenClearsAllClosingFields ==
    [][\A tid \in ThreadIds :
          Reopened(tid) => /\ threads'[tid].closingReason = NULL
                           /\ threads'[tid].closingNote = NULL
                           /\ threads'[tid].closedBy = NULL
                           /\ threads'[tid].closedAt = NULL]_vars

\* C20 amended: the write that reopens a closed thread leaves closingReason,
\* closingNote and closedBy null on it and closedAt as the close set it.
C20_ReopenClearsReasonNoteBy ==
    [][\A tid \in ThreadIds :
          Reopened(tid) => /\ threads'[tid].closingReason = NULL
                           /\ threads'[tid].closingNote = NULL
                           /\ threads'[tid].closedBy = NULL
                           /\ threads'[tid].closedAt = threads[tid].closedAt
                           /\ threads'[tid].closedAt # NULL]_vars

C20_Witness ==
    /\ scenario.stage \in {"reopening", "reopened"}
    /\ scenario.thread \in DOMAIN threads
    /\ threads[scenario.thread].status = "open"
    /\ threads[scenario.thread].closingNote = NULL
    /\ threads[scenario.thread].closedBy = NULL
    /\ threads[scenario.thread].closedAt # NULL

\* ---------------------------------------------------- edit-project claims
\* C26: an edit that is saved with the name the project already has leaves the
\* slug of the project as it was; the slug changes only when the name does.
C26_UnchangedNameKeepsSlug ==
    [][\A u \in Users :
          (/\ form[u].pc = "updating"
           /\ form'[u].pc = "idle"
           /\ form[u].name = projectDocs[form[u].target].name)
              => projectDocs'[form[u].target].slug = projectDocs[form[u].target].slug]_vars

\* --------------------------------------------------- transfer no-op claim
\* C27: a transfer that started in a browser without a stored anonymous id, or
\* with an id that no thread and no response carried, ends without having
\* written a document and with the browser's storage exactly as it found it.
C27_TransferNoOp ==
    (/\ xfer.pc = "done"
     /\ \/ Falsy(xfer.storageBefore.id)
        \/ /\ xfer.before = [threads |-> {}, responses |-> {}]
           /\ xfer.transferCount = 0)
        => /\ ~xfer.written
           /\ localStorage = xfer.storageBefore

\* ----------------------------------------------------- lifecycle claims
HandlerInProgress == \E t \in tabs : pc[t] # "idle" \/ pendingDeletes[t] # {}

\* C28: 0 <= closedIssues <= totalIssues.  (Stated here for the states with no
\* handler under way and no failed write, which is less than the claim says.)
C28_ClosedWithinTotal ==
    (~HandlerInProgress /\ failures = 0)
        => /\ 0 <= project.closedIssues
           /\ project.closedIssues <= project.totalIssues

\* C21: the counters update of a handleDeleteThread takes totalIssues down by
\* one, and closedIssues down by one if the thread was stored as closed when
\* its document was deleted and not at all otherwise.  (Stated here for the
\* runs without any failed write, which is less than the claim says.)
C21_DeleteAdjustsCounters ==
    [][\A t \in Tabs :
          (pc[t] = "dl_counters" /\ pc'[t] = "idle" /\ project' # project /\ failures = 0)
              => /\ project'.totalIssues = project.totalIssues - 1
                 /\ project'.closedIssues =
                        project.closedIssues - (IF deletedStatus[t] = "closed" THEN 1 ELSE 0)]_vars

\* C29: a handleDeleteThread removes the thread document only when no response
\* of the thread is left in the store, and updates the counters only when the
\* thread document is gone.
C29_DeleteInOrder ==
    [][\A t \in Tabs :
          /\ (pc[t] = "dl_thread" /\ pc'[t] = "dl_counters") => ResponsesOf(thread[t].id) = {}
          /\ (pc[t] = "dl_counters" /\ pc'[t] = "idle" /\ project' # project)
                 => thread[t].id \notin DOMAIN threads]_vars

\* C24: what getThreadParticipants(threadId, excludeIdentity) returns has at
\* most 5 recipients, no identity twice, never the excluded identity, and
\* only identities that have an email in the users collection.
C24_ParticipantsBounded ==
    lastCall # NoCall =>
        LET r == lastCall.recipients IN
        /\ Len(r) <= 5
        /\ \A i, j \in 1..Len(r) : i # j => r[i].email # r[j].email
        /\ \A i \in 1..Len(r) :
              \E u \in Members : /\ HasEmail(u)
                                 /\ users[u].email = r[i].email
                                 /\ u # lastCall.currentUserId

\* user3 asks for the participants of a thread in which user3, user7 and
\* enough others have answered for the list to be cut to five.
C24_Witness ==
    /\ lastCall # NoCall
    /\ lastCall.currentUserId = "user3"
    /\ Len(lastCall.recipients) = 5
    /\ \E r1, r2, r3 \in DOMAIN responses :
          /\ responses[r1].authorId = "user3"
          /\ responses[r2].authorId = "user7"
          /\ responses[r3].authorId = "user4" /\ r3 < r2 /\ r3 < r1
    /\ Cardinality({responses[r].authorId : r \in DOMAIN responses}) = 5

\* The identities other than the project's owner and the caller that have an
\* email and are the thread's author or the author of one of its five most
\* recent responses.
OtherParticipants(tid, uid) ==
    LET recent == {r \in ResponsesOf(tid) :
                      Cardinality({q \in ResponsesOf(tid) :
                                      \/ responses[q].createdAt > responses[r].createdAt
                                      \/ /\ responses[q].createdAt = responses[r].createdAt
                                         /\ q < r}) < 5}
    IN  {u \in Members \ {project.ownerId, uid} :
            /\ HasEmail(u)
            /\ \/ threads[tid].authorId = u
               \/ \E r \in recent : responses[r].authorId = u}

OwnerAmongRecipients ==
    \E i \in 1..Len(lastCall.recipients) :
        lastCall.recipients[i].email = users[project.ownerId].email

C22_FailedIncrementLeavesThread ==
    [][\A t \in Tabs :
          (/\ pc[t] = "nt_inc" /\ pc'[t] = "idle" /\ failures' # failures
           /\ docRef[t] \in DOMAIN threads
           /\ project.totalIssues = Cardinality(DOMAIN threads) - 1)
              => /\ docRef[t] \in DOMAIN threads'
                 /\ threads' = threads /\ responses' = responses /\ project' = project
                 /\ project'.totalIssues = Cardinality(DOMAIN threads') - 1]_vars

\* The increment has failed: the thread is stored, every handler has ended
\* and totalIssues still reads 0.
C22_Witness ==
    /\ \A t \in tabs : pc[t] = "idle" /\ pendingDeletes[t] = {}
    /\ DOMAIN threads # {}
    /\ project.totalIssues = 0
    /\ failures = 1
    /\ \E t \in tabs : formError[t] = ThreadError

\* The two responses are by one identity: one authorId, or no authorId and
\* one anonymousId.
SameIdentity(a, b) ==
    \/ a.authorId # NULL /\ a.authorId = b.authorId
    \/ a.authorId = NULL /\ b.authorId = NULL /\ a.anonymousId = b.anonymousId

Before(q, r) ==
    /\ responses[q].threadId = responses[r].threadId
    /\ \/ responses[q].createdAt < responses[r].createdAt
       \/ responses[q].createdAt = responses[r].createdAt /\ q < r

\* q is the response stored immediately before r in r's thread.
ImmediatelyPreceding(q, r) ==
    /\ q \in DOMAIN responses /\ r \in DOMAIN responses
    /\ Before(q, r)
    /\ ~\E x \in DOMAIN responses : Before(q, x) /\ Before(x, r)

\* C23: handleSubmitResponse sends no notification when the response stored
\* immediately before the new one in the thread is by the same identity and
\* less than one hour older.
C23_NoNotificationForSelfReply ==
    [][\A t \in Tabs :
          (/\ pc[t] = "sr_inc" /\ pc'[t] = "idle"
           /\ \E q \in DOMAIN responses :
                 /\ ImmediatelyPreceding(q, docRef[t])
                 /\ SameIdentity(responses[q], responses[docRef[t]])
                 /\ responses[docRef[t]].createdAt - responses[q].createdAt < 3600000)
              => notifications' = notifications]_vars

\* C25, first part: a step in which a send ends, whatever its outcome, changes
\* no stored document or counter, no form error and no handler's position.
\* Second part: the step that issues a send is the step in which the issuing
\* handler ends, with no error on its form; it never waits for the outcome.
C25_SendsNeverBlock ==
    [][/\ (\E i \in DOMAIN notifications : notifications'[i].status # notifications[i].status)
              => /\ threads' = threads /\ responses' = responses /\ project' = project
                 /\ formError' = formError /\ pc' = pc
       /\ Len(notifications') > Len(notifications)
              => \E t \in tabs : /\ pc[t] \in {"nt_inc", "sr_inc"} /\ pc'[t] = "idle"
                                 /\ formError'[t] = ""]_vars

\* A thread and two responses are stored and counted, every handler has ended
\* without an error on its form, and of the three sends one failed, one was
\* rejected and one has not completed.
C25_Witness ==
    /\ \A t \in tabs : pc[t] = "idle" /\ formError[t] = ""
    /\ failures = 0
    /\ Cardinality(DOMAIN threads) = 1 /\ project.totalIssues = 1
    /\ Cardinality(DOMAIN responses) = 2 /\ threads[1].responseCount = 2
    /\ Len(notifications) = 3
    /\ {notifications[i].status : i \in 1..3} = {"failed", "rejected", "pending"}

====
